---- MODULE Spec2Model ----
(***************************************************************************)
(* Audio capture -> chunked recognition pipeline of cloud_whisper_flow_v2. *)
(*                                                                         *)
(*   src/core/recorder.py     AudioRecorder   (stream, buffer, overflow)   *)
(*   src/core/transcriber.py  Transcriber     (chunked feed to recognizer) *)
(*   src/core/workers.py      RecordingWorker (run / stop_recording/reset) *)
(*   src/core/fifo_consumer.py listen_and_forward (named-pipe entry point) *)
(*   src/core/translator.py   Translator      (engine fallback)            *)
(*   src/ui/main_window.py    FloatingWidget  (record button handler)      *)
(*   src/utils/hotkeys.py     HotkeyManager  (the class at line 166)       *)
(*                                                                         *)
(* The specifications share the definitions below:                         *)
(*   Spec, FairSpec  one RecordingWorker with its AudioRecorder, the audio *)
(*                   callback thread and the controlling (UI) thread       *)
(*   SpecRecorder    an AudioRecorder driven directly through its API      *)
(*   SpecFeed        Transcriber.feed_pcm / transcribe on PCM byte strings *)
(*   SpecFifo        listen_and_forward feeding payloads to process_pcm    *)
(*   SpecTranslator  Translator.translate called with any arguments        *)
(*   SpecUI          the record button and the workers it starts           *)
(*   SpecHotkeys     HotkeyManager.register_f8 / unregister_all            *)
(***************************************************************************)
EXTENDS Integers, Sequences, FiniteSets, TLC

VARIABLES
    \* ---- AudioRecorder (src/core/recorder.py) ----
    sd,                \* FALSE when `import sounddevice` failed (sd is None)
    recorder,          \* the recorder's fields: _device_id, _stream, _recording, _audio_data, _overflow_count
    streams,           \* every InputStream constructed so far: its state
    cbpc,              \* position of the audio callback thread
    cb_arr,            \* the converted block the callback is about to append
    callbacks,         \* callback invocations delivered in this session (bounded)
    delivered,         \* history: blocks appended by _audio_callback since the last start()
    overflows,         \* history: overflow-flagged callback invocations since the last start()
    \* ---- controlling thread calling the recorder directly (SpecRecorder) ----
    rpc,               \* position of the caller in start()/stop()
    ret,               \* what the caller's last start()/stop() call did
    \* ---- RecordingWorker (src/core/workers.py) ----
    pc,                \* position of run()
    _should_stop,      \* RecordingWorker._should_stop
    should_stop,       \* run()'s local copy read under the mutex
    worker_audio_data, \* RecordingWorker._audio_data
    emitted,           \* notifications emitted by the current run, in order
    status,            \* last status_update message
    stopCalls,         \* history: stop_recording() calls made
    resets,            \* history: reset() calls made
    transcribing,      \* history: the audio handed to Transcriber.transcribe by run()
    \* ---- Transcriber (src/core/transcriber.py) ----
    _model,            \* Transcriber._model: 0 is None, k > 0 the k-th Model object loaded
    pcm_bytes,         \* SpecFeed: the argument of feed_pcm
    kaldi,             \* SpecFeed: how the recognizer behaves during the call
    fpc,               \* SpecFeed: position of the feed_pcm caller
    feed_out,          \* SpecFeed: outcome of the feed_pcm call, and the model it used
    \* ---- listen_and_forward (src/core/fifo_consumer.py) ----
    fifo_pc,           \* position of the listening loop
    fifo_buf,          \* the payload read from the current writer
    fifo_pcm,          \* the PCM extracted from it
    forwarded,         \* history: the arguments of worker.process_pcm, in order
    writers,           \* history: writer sessions served (bounded)
    recognizers,       \* every KaldiRecognizer constructed: the calls it received
    \* ---- Translator (src/core/translator.py) ----
    translator,        \* the translator's field _last_engine
    tr_out,            \* SpecTranslator: the last translate() call and its outcome
    \* ---- FloatingWidget (src/ui/main_window.py) ----
    ui,                \* record button, status label and self.worker of the widget
    ui_workers,        \* every RecordingWorker the widget has created, in order
    tr_workers,        \* every TranslationWorker the widget has created, in order
    \* ---- HotkeyManager (src/utils/hotkeys.py) ----
    hotkey_manager,    \* the manager's fields: widget, _keyboard, _keyboard_hotkey, _shortcut
    keyboard           \* the keyboard module and the QShortcuts: what was asked of them

recorderVars == <<sd, recorder, streams, cbpc, cb_arr, callbacks, delivered, overflows>>
callerVars == <<rpc, ret>>
workerVars == <<pc, _should_stop, should_stop, worker_audio_data, emitted, status,
                stopCalls, resets, transcribing>>
feedVars == <<pcm_bytes, kaldi, fpc, feed_out>>
fifoVars == <<fifo_pc, fifo_buf, fifo_pcm, forwarded, writers, recognizers>>
trVars == <<translator, tr_out>>
uiVars == <<ui, ui_workers, tr_workers>>
hkVars == <<hotkey_manager, keyboard>>
appVars == <<trVars, uiVars, hkVars>>
extVars == <<fifoVars, appVars>>
vars == <<sd, recorder, streams, cbpc, cb_arr, callbacks, delivered, overflows, rpc, ret,
          pc, _should_stop, should_stop, worker_audio_data, emitted, status,
          stopCalls, resets, transcribing, _model, pcm_bytes, kaldi, fpc, feed_out,
          fifo_pc, fifo_buf, fifo_pcm, forwarded, writers, recognizers, translator,
          tr_out, ui, ui_workers, tr_workers, hotkey_manager, keyboard>>

(***************************************************************************)
(* Bounds of the model.                                                    *)
(***************************************************************************)
MaxCallbacks == 2     \* callback invocations per recording session
MaxSessions == 2      \* start() calls made directly on a recorder
MaxStopCalls == 2     \* stop_recording() calls
MaxResets == 1        \* reset() calls
MaxLoads == 2         \* successful load_model() calls on a Transcriber driven directly
MaxWorkers == 2
MaxTranslations == 2
MaxHotkeyCalls == 3
MaxWriters == 2       \* writer sessions served by the pipe listener
MaxChunks == 1        \* PCM lengths reach MaxChunks full chunks and a little more

(***************************************************************************)
(* Values.                                                                 *)
(***************************************************************************)
None == -1            \* Python None where an integer (a device id) is expected
NoStream == 0         \* recorder._stream is None

\* numpy arrays: a dtype and the samples. Floating-point samples are kept in
\* thousandths (1500 is 1.5), integer samples as they are.
Array(dtype, data) == [dtype |-> dtype, data |-> data]
NoneArray == Array("NoneType", <<>>)
EmptyInt16 == Array("int16", <<>>)

\* C-style truncating division, as numpy's astype(int16) of a float does.
TruncDiv(a, b) == IF a >= 0 THEN a \div b ELSE -((-a) \div b)

\* Two's complement wrap of an integer to 16 bits (astype(np.int16) of a wider int).
WrapInt16(x) == LET m == x % 65536 IN IF m >= 32768 THEN m - 65536 ELSE m

Clip(x) == IF x < -1000 THEN -1000 ELSE IF x > 1000 THEN 1000 ELSE x

\* recorder.py 119-127 / transcriber.py 88-93: conversion of a block to int16.
ToInt16(arr) ==
    IF arr.dtype = "int16" THEN arr.data
    ELSE IF arr.dtype = "float"
         THEN [i \in 1..Len(arr.data) |-> TruncDiv(Clip(arr.data[i]) * 32767, 1000)]
         ELSE [i \in 1..Len(arr.data) |-> WrapInt16(arr.data[i])]

RECURSIVE Concatenate(_)
\* np.concatenate(blocks, axis=0).flatten()
Concatenate(blocks) ==
    IF blocks = <<>> THEN <<>> ELSE Head(blocks) \o Concatenate(Tail(blocks))

RECURSIVE SumLen(_)
SumLen(blocks) == IF blocks = <<>> THEN 0 ELSE Len(Head(blocks)) + SumLen(Tail(blocks))

(***************************************************************************)
(* AudioRecorder  (src/core/recorder.py)                                   *)
(***************************************************************************)
\* AudioRecorder.__init__
NewRecorder ==
    [_device_id |-> None, _stream |-> NoStream, _recording |-> FALSE,
     _audio_data |-> <<>>, _overflow_count |-> 0]

\* What the sounddevice library and the hardware do during one start() call.
\*   sd        FALSE when the sounddevice import failed (sd is None); fixed for
\*             the life of the process
\*   default   sd.default.device, None when undeterminable
\*   query     number of devices sd.query_devices() lists, -1 when it raises
\*   probe     sd.check_input_settings: "ok", "PortAudioError" or "other" failure
\*   ctor      sd.InputStream(...): "ok", "TypeError_ok" (retry without blocksize
\*             succeeds), "raise"
\*   sstart    stream.start(): "ok" or "raise"
StartEnvs(sdv) ==
    [sd : {sdv}, default : {None, 1}, query : {-1, 0, 2},
     probe : {"ok", "PortAudioError", "other"},
     ctor : {"ok", "TypeError_ok", "raise"}, sstart : {"ok", "raise"}]

\* AudioRecorder.list_devices: the ids listed (raises when the query raises).
list_devices(env) ==
    IF ~env.sd THEN <<>> ELSE [i \in 1..env.query |-> i - 1]

list_devices_raises(env) == env.sd /\ env.query = -1

\* AudioRecorder.get_default_device
get_default_device(env) == IF ~env.sd THEN None ELSE env.default

\* Mutant of _validate_device: a probe that fails with another error accepts
\* the device without looking it up.
_validate_device_lenient(device_id, env) ==
    IF ~env.sd THEN FALSE
    ELSE IF env.probe = "ok" THEN TRUE
    ELSE IF env.probe = "PortAudioError" THEN FALSE
    ELSE TRUE

\* Mutant of _validate_device: a listed device is accepted whatever the probe
\* reports.
_validate_device_listed_wins(device_id, env) ==
    IF ~env.sd THEN FALSE
    ELSE IF env.probe = "ok" THEN TRUE
    ELSE IF list_devices_raises(env) THEN FALSE
    ELSE \E i \in 1..Len(list_devices(env)) : list_devices(env)[i] = device_id

\* AudioRecorder._validate_device
_validate_device(device_id, env) ==
    IF ~env.sd THEN FALSE
    ELSE IF env.probe = "ok" THEN TRUE
    ELSE IF env.probe = "PortAudioError" THEN FALSE
    ELSE IF list_devices_raises(env) THEN FALSE
    ELSE \E i \in 1..Len(list_devices(env)) : list_devices(env)[i] = device_id

\* Mutant of resolve_device: the first listed device is preferred to the default.
resolve_device_list_first(r, env) ==
    IF r._device_id # None THEN r._device_id
    ELSE IF ~list_devices_raises(env) /\ list_devices(env) # <<>>
    THEN list_devices(env)[1]
    ELSE get_default_device(env)

\* AudioRecorder.start, lines 173-188: the device to record from; None when the
\* selected id, the default and the listing give none (the listing raising
\* included), which start() reports as AudioRecorderError.
resolve_device(r, env) ==
    IF r._device_id # None THEN r._device_id
    ELSE IF get_default_device(env) # None THEN get_default_device(env)
    ELSE IF list_devices_raises(env) \/ list_devices(env) = <<>> THEN None
    ELSE list_devices(env)[1]

\* Mutant of already_recording: the test of line 165 never succeeds.
already_recording_never(r) == FALSE

\* AudioRecorder.start, lines 165-166: `if self._recording: return`.
already_recording(r) == r._recording

\* AudioRecorder.start with the recorder `r`, the streams `ss` and the environment
\* `env`: the recorder and streams it leaves, the exception it raises ("" if none),
\* that exception's message, and the device it resolved (None if none).
start(r, ss, env) ==
    IF ~env.sd
    THEN [r |-> r, ss |-> ss, exc |-> "AudioRecorderError",
          msg |-> "sounddevice not available", device |-> None]
    ELSE IF already_recording(r)
    THEN [r |-> r, ss |-> ss, exc |-> "", msg |-> "", device |-> None]
    ELSE
      LET r1 == [r EXCEPT !._audio_data = <<>>, !._overflow_count = 0,
                          !._recording = TRUE]
          device == resolve_device(r, env)
      IN  IF device = None
          THEN [r |-> r1, ss |-> ss, exc |-> "AudioRecorderError",
                msg |-> "No audio input device found", device |-> None]
          ELSE IF ~_validate_device(device, env)
               THEN [r |-> r1, ss |-> ss, exc |-> "AudioRecorderError",
                     msg |-> "Device does not support sample rate", device |-> device]
          ELSE IF env.ctor = "raise"
               THEN [r |-> r1, ss |-> ss, exc |-> "AudioRecorderError",
                     msg |-> "Failed to start recording", device |-> device]
          ELSE IF env.sstart = "raise"
               THEN [r |-> [r1 EXCEPT !._stream = Len(ss) + 1],
                     ss |-> Append(ss, "created"), exc |-> "AudioRecorderError",
                     msg |-> "Failed to start recording", device |-> device]
          ELSE [r |-> [r1 EXCEPT !._stream = Len(ss) + 1],
                ss |-> Append(ss, "active"), exc |-> "", msg |-> "",
                device |-> device]

\* Mutant of stop_returns_early: stop() always goes on to stop the stream.
stop_returns_early_never(r) == FALSE

\* AudioRecorder.stop, lines 222-223: a recorder that is not recording returns an
\* empty array at once.
stop_returns_early(r) == ~r._recording

\* AudioRecorder.stop, line 225: the flag.
stop_flag(r) == [r EXCEPT !._recording = FALSE]

\* What the stream does when stop() stops and closes it. A stream is "created",
\* "active" (delivering callbacks), "stopped", "closed", or "stop_failed" when its
\* stop() raised: such a stream was never closed; it is taken to deliver no more
\* callbacks.
StopEnvs == {"ok", "stop_raises", "close_raises"}

\* Mutant of stop_stream: the stream is forgotten without being stopped or closed.
stop_stream_forget(r, ss, env) ==
    [r |-> [r EXCEPT !._stream = NoStream], ss |-> ss, exc |-> "",
     ret |-> IF r._audio_data # <<>>
             THEN Array("int16", Concatenate(r._audio_data))
             ELSE EmptyInt16]

\* AudioRecorder.stop, lines 226-236: stop and close the stream, forget it, then
\* concatenate the buffered blocks. `exc` is the exception that escapes ("" if none).
stop_stream(r, ss, env) ==
    LET held == r._stream # NoStream
        r1 == [r EXCEPT !._stream = NoStream]
        ss1 == IF ~held THEN ss
               ELSE IF env = "stop_raises" THEN [ss EXCEPT ![r._stream] = "stop_failed"]
               ELSE IF env = "close_raises" THEN [ss EXCEPT ![r._stream] = "stopped"]
               ELSE [ss EXCEPT ![r._stream] = "closed"]
    IN  IF held /\ env # "ok"
        THEN [r |-> r1, ss |-> ss1, exc |-> "Exception", ret |-> NoneArray]
        ELSE [r |-> r1, ss |-> ss1, exc |-> "",
              ret |-> IF r._audio_data # <<>>
                      THEN Array("int16", Concatenate(r._audio_data))
                      ELSE EmptyInt16]

\* AudioRecorder.is_recording
is_recording(r) == r._recording

\* AudioRecorder.get_overflow_count
get_overflow_count(r) == r._overflow_count

\* The status argument of a callback: None, flags with input_overflow set, or
\* flags with only another bit set. The indata argument: None, a block of int16 or
\* float samples, or a block whose elements are not numbers.
Statuses == {"None", "input_overflow", "input_underflow"}
Indata == {NoneArray, Array("int16", <<1234>>), Array("float", <<1500, -250>>),
           Array("str", <<0>>)}

\* AudioRecorder._audio_callback, line 127: arr.astype(np.int16) raises ValueError
\* for elements that are not numbers; no handler encloses lines 119-127.
astype_raises(arr) == arr.dtype = "str"

\* Mutant of callback_status: every status that is set counts as an overflow.
callback_status_any(r, st) ==
    IF st # "None" THEN [r EXCEPT !._overflow_count = @ + 1] ELSE r

\* AudioRecorder._audio_callback, lines 109-116: overflow tracking.
callback_status(r, st) ==
    IF st = "input_overflow" THEN [r EXCEPT !._overflow_count = @ + 1] ELSE r

\* Mutant of callback_append: the block replaces the buffer instead of extending it.
callback_append_replace(r, arr) == [r EXCEPT !._audio_data = <<arr>>]

\* AudioRecorder._audio_callback, lines 130-132: the append.
callback_append(r, arr) == [r EXCEPT !._audio_data = Append(@, arr)]

(***************************************************************************)
(* Transcriber  (src/core/transcriber.py)                                  *)
(***************************************************************************)
chunk_size == 4000    \* samples per AcceptWaveform call

\* chunk.tobytes(): little-endian bytes of int16 samples.
tobytes(samples) ==
    [i \in 1..(2 * Len(samples)) |->
        LET u == samples[(i + 1) \div 2] % 65536
        IN  IF i % 2 = 1 THEN u % 256 ELSE u \div 256]

\* np.frombuffer(pcm_bytes, dtype=np.int16); raises ValueError when the length is
\* not a multiple of the sample size.
frombuffer_raises(bytes) == Len(bytes) % 2 # 0

frombuffer(bytes) ==
    Array("int16", [j \in 1..(Len(bytes) \div 2) |->
                       WrapInt16(bytes[2 * j - 1] + 256 * bytes[2 * j])])

\* Mutant of NumChunks: a trailing partial chunk is not counted.
NumChunks_Floor(size) == size \div chunk_size

\* range(0, arr.size, chunk_size): the number of chunks.
NumChunks(size) == (size + chunk_size - 1) \div chunk_size

\* arr[i : i + chunk_size] for the k-th value of i (k from 1).
Chunk(arr, k) ==
    LET lo == (k - 1) * chunk_size + 1
        hi == IF k * chunk_size < Len(arr) THEN k * chunk_size ELSE Len(arr)
    IN  SubSeq(arr, lo, hi)

\* How the vosk recognizer behaves during one transcribe call.
\*   available   FALSE when the vosk import failed (KaldiRecognizer is None)
\*   ctor        KaldiRecognizer(model, rate): "ok" or "raise"
\*   accept      k > 0: the k-th AcceptWaveform call raises; 0: none does
\*   final       FinalResult(): JSON with a "text" ("text"), with an empty "text"
\*               ("empty"), without the field ("notext"), unparsable ("garbage"),
\*               or the call raises ("raise")
\*   result      Result(): "text", "garbage" or "raise"
KaldiEnv(available, ctor, accept, final, result) ==
    [available |-> available, ctor |-> ctor, accept |-> accept, final |-> final,
     result |-> result]

KaldiEnvs(n) ==
    {KaldiEnv(FALSE, "ok", 0, "text", "text"), KaldiEnv(TRUE, "raise", 0, "text", "text")}
    \cup {KaldiEnv(TRUE, "ok", k, "text", "text") : k \in 1..n}
    \cup {KaldiEnv(TRUE, "ok", 0, f, "text") : f \in {"text", "empty", "notext"}}
    \cup {KaldiEnv(TRUE, "ok", 0, f, r) : f \in {"garbage", "raise"},
                                          r \in {"text", "garbage", "raise"}}

Call(op, data) == [op |-> op, data |-> data]

\* The text the recognizer has decoded, as data.get("text", "") or "" reads it.
TextOf(json) == IF json = "text" THEN "hello world" ELSE ""

\* Transcriber.transcribe, lines 103-108: the AcceptWaveform calls made on `arr`
\* (all of them, or those up to and including the one that raises).
AcceptCalls(arr, env) ==
    LET n == NumChunks(Len(arr))
        last == IF env.accept > 0 /\ env.accept <= n THEN env.accept ELSE n
    IN  [k \in 1..last |-> Call("AcceptWaveform", tobytes(Chunk(arr, k)))]

\* Mutant of FinalCalls: a failing FinalResult is not followed by the fallback.
FinalCalls_NoFallback(env) ==
    IF env.final \in {"text", "empty", "notext"}
    THEN [exc |-> "", text |-> TextOf(env.final), calls |-> <<Call("FinalResult", <<>>)>>]
    ELSE [exc |-> "TranscriberError", text |-> "",
          calls |-> <<Call("FinalResult", <<>>)>>]

\* Transcriber.transcribe, lines 110-122: FinalResult, then Result as a fallback.
FinalCalls(env) ==
    IF env.final \in {"text", "empty", "notext"}
    THEN [exc |-> "", text |-> TextOf(env.final), calls |-> <<Call("FinalResult", <<>>)>>]
    ELSE [exc |-> IF env.result = "text" THEN "" ELSE "TranscriberError",
          text |-> TextOf(env.result),
          calls |-> <<Call("FinalResult", <<>>), Call("Result", <<>>)>>]

\* Mutant of is_model_loaded: the model is taken to be loaded.
is_model_loaded_always(model) == TRUE

\* Transcriber.is_model_loaded: self._model is not None (0 stands for None).
is_model_loaded(model) == model # 0

\* Mutant of returns_empty: only None is short-circuited.
returns_empty_none_only(audio) == audio.dtype = "NoneType"

\* Transcriber.transcribe, lines 80-86: None and arrays of size 0 return "".
returns_empty(audio) == audio.dtype = "NoneType" \/ Len(audio.data) = 0

\* Mutant of transcribe_handler: the exception is let through as it is.
transcribe_handler_reraise(exc) == exc

\* Transcriber.transcribe, lines 124-127: a TranscriberError is re-raised, any other
\* exception raised inside the try block is replaced by a TranscriberError.
transcribe_handler(exc) ==
    IF exc \in {"", "TranscriberError"} THEN exc ELSE "TranscriberError"

\* Transcriber.feed_pcm, lines 143-144: every exception of np.frombuffer or of
\* transcribe is replaced by a TranscriberError.
feed_pcm_handler(exc) == IF exc = "" THEN "" ELSE "TranscriberError"

\* Transcriber.transcribe: the exception raised ("" if none), the text returned and
\* the calls made on the recognizer, for the model `model` (0: not loaded). The
\* recognizer's constructor and AcceptWaveform fail with a plain Exception.
transcribe(model, audio, env) ==
    IF ~is_model_loaded(model)
    THEN [exc |-> "TranscriberError", text |-> "", calls |-> <<>>]
    ELSE IF returns_empty(audio) THEN [exc |-> "", text |-> "", calls |-> <<>>]
    ELSE
      LET arr == ToInt16(audio)
          ctor == <<Call("KaldiRecognizer", <<>>)>>
          n == NumChunks(Len(arr))
      IN  IF ~env.available
          THEN [exc |-> transcribe_handler("TranscriberError"), text |-> "",
                calls |-> <<>>]
          ELSE IF env.ctor = "raise"
          THEN [exc |-> transcribe_handler("Exception"), text |-> "", calls |-> ctor]
          ELSE IF env.accept > 0 /\ env.accept <= n
          THEN [exc |-> transcribe_handler("Exception"), text |-> "",
                calls |-> ctor \o AcceptCalls(arr, env)]
          ELSE LET fin == FinalCalls(env)
               IN  [exc |-> transcribe_handler(fin.exc), text |-> fin.text,
                    calls |-> ctor \o AcceptCalls(arr, env) \o fin.calls]

\* Transcriber.feed_pcm; np.frombuffer fails with a ValueError.
feed_pcm(model, bytes, env) ==
    IF ~is_model_loaded(model)
    THEN [exc |-> "TranscriberError", text |-> "", calls |-> <<>>]
    ELSE IF Len(bytes) = 0 THEN [exc |-> "", text |-> "", calls |-> <<>>]
    ELSE IF frombuffer_raises(bytes)
    THEN [exc |-> feed_pcm_handler("ValueError"), text |-> "", calls |-> <<>>]
    ELSE LET out == transcribe(model, frombuffer(bytes), env)
         IN  [exc |-> feed_pcm_handler(out.exc), text |-> out.text,
              calls |-> out.calls]

\* Transcriber.load_model: the model held afterwards; `ok` is whether Model(path)
\* could be constructed. A failed load raises and leaves _model as it was.
load_model(model, ok) == IF ok THEN model + 1 ELSE model

(***************************************************************************)
(* Initial state: the objects as their constructors leave them.            *)
(***************************************************************************)
\* What the last start() or stop() call on the recorder returned or raised.
Returned(op, exc, value) ==
    [op |-> op, exc |-> exc, value |-> value, msg |-> "", device |-> None]
NoReturn == Returned("", "", NoneArray)
NoFeed == [model |-> 0, exc |-> "", text |-> "", calls |-> <<>>]
NoKaldi == KaldiEnv(TRUE, "ok", 0, "text", "text")

\* Python values of translate(): a str is its characters, None is not a str.
PyStr(chars) == [type |-> "str", chars |-> chars]
PyNone == [type |-> "NoneType", chars |-> <<>>]
isinstance_str(v) == v.type = "str"

\* str.strip(): leading and trailing whitespace removed.
Whitespace == {" ", "\t", "\n"}
RECURSIVE lstrip(_)
lstrip(chars) ==
    IF chars # <<>> /\ Head(chars) \in Whitespace THEN lstrip(Tail(chars)) ELSE chars
RECURSIVE rstrip(_)
rstrip(chars) ==
    IF chars # <<>> /\ chars[Len(chars)] \in Whitespace
    THEN rstrip(SubSeq(chars, 1, Len(chars) - 1))
    ELSE chars
strip(chars) == rstrip(lstrip(chars))

\* Translator.SUPPORTED_LANGUAGES (translator.py 27-35).
SUPPORTED_LANGUAGES ==
    [name \in {"English", "Spanish", "French", "German", "Italian", "Japanese",
               "Chinese"} |->
        CASE name = "English" -> "en"
          [] name = "Spanish" -> "es"
          [] name = "French" -> "fr"
          [] name = "German" -> "de"
          [] name = "Italian" -> "it"
          [] name = "Japanese" -> "ja"
          [] name = "Chinese" -> "zh"]

\* What translate() returns: the str an engine produced for a query (`form` is
\* "str" when the engine returned a str, "repr" when it returned a dict that line
\* 84 turned into its str()), or the empty str.
EmptyStr == [engine |-> "", query_text |-> <<>>, to_language |-> "", form |-> "str"]
translate_text(text, engine, code, outcome) ==
    [engine |-> engine, query_text |-> text.chars, to_language |-> code,
     form |-> IF outcome = "dict" THEN "repr" ELSE "str"]

\* Translator.__init__ (translator.py 39-40): _last_engine is None; no
\* translate() call made yet.
NoEngine == "None"
NewTranslator == [_last_engine |-> NoEngine]
NoTranslation == [text |-> PyStr(<<>>), target_language |-> "",
                  env |-> [e \in {"google", "bing"} |-> "str"], calls |-> <<>>,
                  exc |-> "", msg |-> "", value |-> EmptyStr, before |-> NoEngine]

\* FloatingWidget.__init__ (main_window.py 244-251): the record button is not
\* checked and self.worker is None (0). `toggle` is history: the parity of the
\* _on_record_toggled(True) calls made; `last` is what the last one did.
\* self.translation_worker is None (0, line 101) and the translation box shows
\* no result; `translation_text` is the request whose result the box shows.
NewWidget == [checked |-> FALSE, status_label |-> "Ready", worker |-> 0,
              toggle |-> 0, last |-> "", translation_worker |-> 0,
              translation_text |-> 0]

\* HotkeyManager.__init__ (hotkeys.py 173-178): _keyboard is None (FALSE),
\* _keyboard_hotkey and _shortcut are None (0).
NewHotkeyManager(widget) ==
    [widget |-> widget, _keyboard |-> FALSE, _keyboard_hotkey |-> 0, _shortcut |-> 0]

\* The keyboard module (`available`: whether `import keyboard` succeeds) and the
\* QShortcut objects, with what the manager has asked of them so far: `added`,
\* the handlers add_hotkey returned; `removed`, the arguments of the remove_hotkey
\* calls; `shortcuts`, the QShortcuts constructed (enabled or not, callback
\* connected or not); `disabled`, the shortcuts that setEnabled(False) was called
\* on; `calls`, the manager's methods called so far, in order.
NewKeyboard(available) ==
    [available |-> available, added |-> <<>>, removed |-> <<>>, shortcuts |-> <<>>,
     disabled |-> <<>>, calls |-> <<>>]

InitObjects ==
    /\ sd \in BOOLEAN
    /\ recorder = NewRecorder
    /\ streams = <<>>
    /\ cbpc = "idle"
    /\ cb_arr = <<>>
    /\ callbacks = 0
    /\ delivered = <<>>
    /\ overflows = 0
    /\ rpc = "idle"
    /\ ret = NoReturn
    /\ pc = "idle"
    /\ _should_stop = FALSE
    /\ should_stop = FALSE
    /\ worker_audio_data = NoneArray
    /\ emitted = <<>>
    /\ status = ""
    /\ stopCalls = 0
    /\ resets = 0
    /\ transcribing = NoneArray
    /\ _model = 0
    /\ fpc = "idle"
    /\ feed_out = NoFeed
    /\ fifo_pc = "open"
    /\ fifo_buf = <<>>
    /\ fifo_pcm = <<>>
    /\ forwarded = <<>>
    /\ writers = 0
    /\ recognizers = <<>>
    /\ translator = NewTranslator
    /\ tr_out = NoTranslation
    /\ ui = NewWidget
    /\ ui_workers = <<>>
    /\ tr_workers = <<>>

\* A manager constructed without a widget, nothing registered yet.
InitHotkeyManager ==
    /\ hotkey_manager = NewHotkeyManager(FALSE)
    /\ keyboard = NewKeyboard(TRUE)

Init ==
    /\ InitObjects
    /\ InitHotkeyManager
    /\ pcm_bytes = <<>>
    /\ kaldi = NoKaldi

(***************************************************************************)
(* The audio callback thread (PortAudio calls AudioRecorder._audio_callback *)
(* while a stream is active).                                              *)
(***************************************************************************)
StreamActive == \E i \in 1..Len(streams) : streams[i] = "active"

\* _audio_callback up to the test of self._recording (lines 109-130), or up to the
\* conversion that raises.
CallbackEnter(indata, st) ==
    /\ cbpc = "idle"
    /\ StreamActive
    /\ callbacks < MaxCallbacks
    /\ callbacks' = callbacks + 1
    /\ overflows' = IF st = "input_overflow" THEN overflows + 1 ELSE overflows
    /\ recorder' = callback_status(recorder, st)
    /\ IF indata # NoneArray /\ astype_raises(indata)
       THEN cbpc' = "raised" /\ UNCHANGED cb_arr
       ELSE IF indata # NoneArray /\ recorder._recording
       THEN cbpc' = "append" /\ cb_arr' = ToInt16(indata)
       ELSE UNCHANGED <<cbpc, cb_arr>>
    /\ UNCHANGED <<sd, streams, delivered>>

\* An exception leaves _audio_callback: the library reports it and the stream goes
\* on calling the callback.
CallbackRaised ==
    /\ cbpc = "raised"
    /\ cbpc' = "idle"
    /\ UNCHANGED <<sd, recorder, streams, cb_arr, callbacks, delivered, overflows>>

\* _audio_callback, line 131: self._audio_data.append(arr.copy()).
CallbackAppend ==
    /\ cbpc = "append"
    /\ recorder' = callback_append(recorder, cb_arr)
    /\ delivered' = Append(delivered, cb_arr)
    /\ cbpc' = "idle"
    /\ cb_arr' = <<>>
    /\ UNCHANGED <<sd, streams, callbacks, overflows>>

Callback ==
    \/ \E indata \in Indata, st \in Statuses : CallbackEnter(indata, st)
    \/ CallbackAppend
    \/ CallbackRaised

\* A start() call that gets past lines 162-166 begins a new recording session.
BeginsSession == sd /\ ~recorder._recording

(***************************************************************************)
(* RecordingWorker  (src/core/workers.py)                                  *)
(***************************************************************************)
Emit(log, name, payload) == Append(log, <<name, payload>>)
Names(log) == [i \in 1..Len(log) |-> log[i][1]]

\* recorder.set_device(d) on the worker's recorder before the thread is started.
SetDevice(d) ==
    /\ pc = "idle"
    /\ recorder' = [recorder EXCEPT !._device_id = d]
    /\ UNCHANGED <<sd, streams, cbpc, cb_arr, callbacks, delivered, overflows>>
    /\ UNCHANGED <<workerVars, callerVars, feedVars, _model>>
    /\ UNCHANGED extVars

\* transcriber.load_model() by the owner of the transcriber, before the worker
\* thread is started; the owner calls it once on a new Transcriber
\* (main_window.py 571-580).
LoadModel ==
    /\ pc = "idle"
    /\ _model = 0
    /\ \E ok \in BOOLEAN : _model' = load_model(_model, ok)
    /\ UNCHANGED <<recorderVars, workerVars, callerVars, feedVars>>
    /\ UNCHANGED extVars

\* Mutant of RunBegin: run() clears the stop flag when it begins.
RunBegin_ClearsFlag ==
    /\ pc = "idle"
    /\ emitted' = Emit(<<>>, "recording_started", "")
    /\ status' = "Recording..."
    /\ pc' = "start"
    /\ _should_stop' = FALSE
    /\ UNCHANGED <<should_stop, worker_audio_data, stopCalls, resets, transcribing>>
    /\ UNCHANGED <<recorderVars, callerVars, feedVars, _model>>
    /\ UNCHANGED extVars

\* QThread.start(): run() is entered, once per worker (main_window.py 579-580
\* constructs a new worker for every recording); lines 41-42.
RunBegin ==
    /\ pc = "idle"
    /\ emitted' = Emit(<<>>, "recording_started", "")
    /\ status' = "Recording..."
    /\ pc' = "start"
    /\ UNCHANGED <<_should_stop, should_stop, worker_audio_data, stopCalls, resets,
                   transcribing>>
    /\ UNCHANGED <<recorderVars, callerVars, feedVars, _model>>
    /\ UNCHANGED extVars

\* Line 44, self.recorder.start(), and the handler of lines 73-74 when it raises.
RunStart ==
    /\ pc = "start"
    /\ \E env \in StartEnvs(sd) :
         LET out == start(recorder, streams, env)
         IN  /\ recorder' = out.r
             /\ streams' = out.ss
             /\ ret' = [Returned("start", out.exc, NoneArray) EXCEPT !.msg = out.msg,
                                                                 !.device = out.device]
             /\ IF out.exc # ""
                THEN /\ emitted' = Emit(emitted, "transcription_error", "Recording error")
                     /\ pc' = "done"
                ELSE /\ emitted' = emitted
                     /\ pc' = "poll"
    /\ IF BeginsSession
       THEN callbacks' = 0 /\ delivered' = <<>> /\ overflows' = 0
       ELSE UNCHANGED <<callbacks, delivered, overflows>>
    /\ UNCHANGED <<sd, cbpc, cb_arr>>
    /\ UNCHANGED <<_should_stop, should_stop, worker_audio_data, status, stopCalls,
                   resets, transcribing>>
    /\ UNCHANGED <<rpc, feedVars, _model>>
    /\ UNCHANGED extVars

\* Mutant of RunPoll: the loop tests a value that is never refreshed from the flag.
RunPoll_Stale ==
    /\ pc = "poll"
    /\ pc' = IF should_stop THEN "stop" ELSE "sleep"
    /\ UNCHANGED <<_should_stop, should_stop, worker_audio_data, emitted, status,
                   stopCalls, resets, transcribing>>
    /\ UNCHANGED <<recorderVars, callerVars, feedVars, _model>>
    /\ UNCHANGED extVars

\* Lines 48-52: the flag is read under the mutex.
RunPoll ==
    /\ pc = "poll"
    /\ should_stop' = _should_stop
    /\ pc' = IF _should_stop THEN "stop" ELSE "sleep"
    /\ UNCHANGED <<_should_stop, worker_audio_data, emitted, status, stopCalls,
                   resets, transcribing>>
    /\ UNCHANGED <<recorderVars, callerVars, feedVars, _model>>
    /\ UNCHANGED extVars

\* Line 54: self.msleep(50).
RunSleep ==
    /\ pc = "sleep"
    /\ pc' = "poll"
    /\ UNCHANGED <<_should_stop, should_stop, worker_audio_data, emitted, status,
                   stopCalls, resets, transcribing>>
    /\ UNCHANGED <<recorderVars, callerVars, feedVars, _model>>
    /\ UNCHANGED extVars

\* Line 57, recorder.stop() up to `self._recording = False`; when the recorder is
\* not recording stop() returns an empty array at once and lines 58-59 follow.
RunStopFlag ==
    /\ pc = "stop"
    /\ IF stop_returns_early(recorder)
       THEN /\ worker_audio_data' = EmptyInt16
            /\ ret' = Returned("stop_idle", "", EmptyInt16)
            /\ emitted' = Emit(emitted, "recording_stopped", "")
            /\ pc' = "stored"
            /\ UNCHANGED recorder
       ELSE /\ recorder' = stop_flag(recorder)
            /\ pc' = "stop_stream"
            /\ UNCHANGED <<worker_audio_data, emitted, ret>>
    /\ UNCHANGED <<sd, streams, cbpc, cb_arr, callbacks, delivered, overflows>>
    /\ UNCHANGED <<_should_stop, should_stop, status, stopCalls, resets,
                   transcribing>>
    /\ UNCHANGED <<rpc, feedVars, _model>>
    /\ UNCHANGED extVars

\* Line 57, the rest of recorder.stop(): stream.stop() returns once the callback in
\* flight has returned; then lines 58-59, or the handler of lines 77-78.
RunStopStream ==
    /\ pc = "stop_stream"
    /\ cbpc = "idle"
    /\ \E env \in StopEnvs :
         LET out == stop_stream(recorder, streams, env)
         IN  /\ recorder._stream = NoStream => env = "ok"
             /\ recorder' = out.r
             /\ streams' = out.ss
             /\ ret' = Returned("stop", out.exc, out.ret)
             /\ IF out.exc # ""
                THEN /\ emitted' = Emit(emitted, "transcription_error", "Unexpected error")
                     /\ pc' = "done"
                     /\ UNCHANGED worker_audio_data
                ELSE /\ worker_audio_data' = out.ret
                     /\ emitted' = Emit(emitted, "recording_stopped", "")
                     /\ pc' = "stored"
    /\ UNCHANGED <<sd, cbpc, cb_arr, callbacks, delivered, overflows>>
    /\ UNCHANGED <<_should_stop, should_stop, status, stopCalls, resets,
                   transcribing>>
    /\ UNCHANGED <<rpc, feedVars, _model>>
    /\ UNCHANGED extVars

\* Line 61, first operand: `self._audio_data is None`.
RunCheckNone ==
    /\ pc = "stored"
    /\ IF worker_audio_data = NoneArray
       THEN /\ emitted' = Emit(emitted, "transcription_error", "No audio recorded")
            /\ pc' = "done"
       ELSE /\ emitted' = emitted
            /\ pc' = "check_len"
    /\ UNCHANGED <<_should_stop, should_stop, worker_audio_data, status, stopCalls,
                   resets, transcribing>>
    /\ UNCHANGED <<recorderVars, callerVars, feedVars, _model>>
    /\ UNCHANGED extVars

\* Mutant of RunCheckLen: the `return` of line 63 is missing.
RunCheckLen_NoReturn ==
    /\ pc = "check_len"
    /\ IF worker_audio_data = NoneArray
       THEN /\ emitted' = Emit(emitted, "transcription_error", "Unexpected error")
            /\ pc' = "done"
            /\ UNCHANGED status
       ELSE /\ emitted' =
                 IF Len(worker_audio_data.data) = 0
                 THEN Emit(Emit(emitted, "transcription_error", "No audio recorded"),
                           "transcription_started", "")
                 ELSE Emit(emitted, "transcription_started", "")
            /\ status' = "Processing..."
            /\ pc' = "transcribe"
    /\ UNCHANGED <<_should_stop, should_stop, worker_audio_data, stopCalls, resets,
                   transcribing>>
    /\ UNCHANGED <<recorderVars, callerVars, feedVars, _model>>
    /\ UNCHANGED extVars

\* Mutant of RunCheckLen: transcription_started is not announced.
RunCheckLen_NoStarted ==
    /\ pc = "check_len"
    /\ IF worker_audio_data = NoneArray
       THEN /\ emitted' = Emit(emitted, "transcription_error", "Unexpected error")
            /\ pc' = "done"
            /\ UNCHANGED status
       ELSE IF Len(worker_audio_data.data) = 0
       THEN /\ emitted' = Emit(emitted, "transcription_error", "No audio recorded")
            /\ pc' = "done"
            /\ UNCHANGED status
       ELSE /\ emitted' = emitted
            /\ status' = "Processing..."
            /\ pc' = "transcribe"
    /\ UNCHANGED <<_should_stop, should_stop, worker_audio_data, stopCalls, resets,
                   transcribing>>
    /\ UNCHANGED <<recorderVars, callerVars, feedVars, _model>>
    /\ UNCHANGED extVars

\* Mutant of len_is_zero: the length is never found to be zero.
len_is_zero_never(audio) == FALSE

\* Line 61: len(self._audio_data) == 0.
len_is_zero(audio) == Len(audio.data) = 0

\* Line 61, second operand, and lines 62-67: `len(self._audio_data) == 0` reads the
\* attribute again; len(None) raises TypeError, which lines 77-78 handle.
RunCheckLen ==
    /\ pc = "check_len"
    /\ IF worker_audio_data = NoneArray
       THEN /\ emitted' = Emit(emitted, "transcription_error", "Unexpected error")
            /\ pc' = "done"
            /\ UNCHANGED status
       ELSE IF len_is_zero(worker_audio_data)
       THEN /\ emitted' = Emit(emitted, "transcription_error", "No audio recorded")
            /\ pc' = "done"
            /\ UNCHANGED status
       ELSE /\ emitted' = Emit(emitted, "transcription_started", "")
            /\ status' = "Processing..."
            /\ pc' = "transcribe"
    /\ UNCHANGED <<_should_stop, should_stop, worker_audio_data, stopCalls, resets,
                   transcribing>>
    /\ UNCHANGED <<recorderVars, callerVars, feedVars, _model>>
    /\ UNCHANGED extVars

\* Line 69: self.transcriber.transcribe(self._audio_data) is called.
RunTranscribeCall ==
    /\ pc = "transcribe"
    /\ transcribing' = worker_audio_data
    /\ pc' = "transcribing"
    /\ UNCHANGED <<_should_stop, should_stop, worker_audio_data, emitted, status,
                   stopCalls, resets>>
    /\ UNCHANGED <<recorderVars, callerVars, feedVars, _model>>
    /\ UNCHANGED extVars

\* Line 69 returns or raises; lines 70-71, or the handler of lines 75-76.
RunTranscribeReturn ==
    /\ pc = "transcribing"
    /\ \E env \in KaldiEnvs(1) :
         LET out == transcribe(_model, transcribing, env)
         IN  IF out.exc # ""
             THEN /\ emitted' = Emit(emitted, "transcription_error",
                                     IF out.exc = "TranscriberError"
                                     THEN "Transcription error"
                                     ELSE "Unexpected error")
                  /\ UNCHANGED status
             ELSE /\ emitted' = Emit(emitted, "transcription_complete", out.text)
                  /\ status' = "Ready"
    /\ pc' = "done"
    /\ UNCHANGED <<_should_stop, should_stop, worker_audio_data, stopCalls, resets,
                   transcribing>>
    /\ UNCHANGED <<recorderVars, callerVars, feedVars, _model>>
    /\ UNCHANGED extVars

Run ==
    \/ RunBegin
    \/ RunStart
    \/ RunPoll
    \/ RunSleep
    \/ RunStopFlag
    \/ RunStopStream
    \/ RunCheckNone
    \/ RunCheckLen
    \/ RunTranscribeCall
    \/ RunTranscribeReturn

\* Mutant of stop_recording: the call toggles the flag.
stop_recording_toggle(flag) == ~flag

\* RecordingWorker.stop_recording, called from the controlling thread: the value
\* of _should_stop it leaves.
stop_recording(flag) == TRUE

StopRecording ==
    /\ stopCalls < MaxStopCalls
    /\ stopCalls' = stopCalls + 1
    /\ _should_stop' = stop_recording(_should_stop)
    /\ UNCHANGED <<pc, should_stop, worker_audio_data, emitted, status, resets,
                   transcribing>>
    /\ UNCHANGED <<recorderVars, callerVars, feedVars, _model>>
    /\ UNCHANGED extVars

\* RecordingWorker.reset, called from the controlling thread.
Reset ==
    /\ resets < MaxResets
    /\ resets' = resets + 1
    /\ _should_stop' = FALSE
    /\ worker_audio_data' = NoneArray
    /\ UNCHANGED <<pc, should_stop, emitted, status, stopCalls, transcribing>>
    /\ UNCHANGED <<recorderVars, callerVars, feedVars, _model>>
    /\ UNCHANGED extVars

WorkerCallback ==
    Callback /\ UNCHANGED <<workerVars, callerVars, feedVars, _model, extVars>>

Next ==
    \/ \E d \in {0, 9999} : SetDevice(d)
    \/ LoadModel
    \/ Run
    \/ StopRecording
    \/ Reset
    \/ WorkerCallback

Spec == Init /\ [][Next]_vars

(***************************************************************************)
(* An AudioRecorder driven directly: one controlling thread calls          *)
(* set_device, start and stop in any order, over several sessions, while   *)
(* the callback thread delivers blocks.                                    *)
(***************************************************************************)
CallSetDevice(d) ==
    /\ rpc = "idle"
    /\ recorder' = [recorder EXCEPT !._device_id = d]
    /\ UNCHANGED <<sd, streams, cbpc, cb_arr, callbacks, delivered, overflows>>
    /\ UNCHANGED <<workerVars, callerVars, feedVars, _model>>
    /\ UNCHANGED extVars

\* recorder.start()
CallStart ==
    /\ rpc = "idle"
    /\ Len(streams) < MaxSessions
    /\ \E env \in StartEnvs(sd) :
         LET out == start(recorder, streams, env)
         IN  /\ recorder' = out.r
             /\ streams' = out.ss
             /\ ret' = [Returned("start", out.exc, NoneArray) EXCEPT !.msg = out.msg,
                                                                 !.device = out.device]
    /\ IF BeginsSession
       THEN callbacks' = 0 /\ delivered' = <<>> /\ overflows' = 0
       ELSE UNCHANGED <<callbacks, delivered, overflows>>
    /\ UNCHANGED <<sd, cbpc, cb_arr, rpc>>
    /\ UNCHANGED <<workerVars, feedVars, _model>>
    /\ UNCHANGED extVars

\* recorder.stop() up to `self._recording = False`, or all of it when the recorder
\* is not recording.
CallStopFlag ==
    /\ rpc = "idle"
    /\ IF stop_returns_early(recorder)
       THEN /\ ret' = Returned("stop_idle", "", EmptyInt16)
            /\ UNCHANGED <<recorder, rpc>>
       ELSE /\ recorder' = stop_flag(recorder)
            /\ rpc' = "stopping"
            /\ UNCHANGED ret
    /\ UNCHANGED <<sd, streams, cbpc, cb_arr, callbacks, delivered, overflows>>
    /\ UNCHANGED <<workerVars, feedVars, _model>>
    /\ UNCHANGED extVars

\* The rest of recorder.stop(); stream.stop() returns once the callback in flight
\* has returned.
CallStopStream ==
    /\ rpc = "stopping"
    /\ cbpc = "idle"
    /\ \E env \in StopEnvs :
         LET out == stop_stream(recorder, streams, env)
         IN  /\ recorder._stream = NoStream => env = "ok"
             /\ recorder' = out.r
             /\ streams' = out.ss
             /\ ret' = Returned("stop", out.exc, out.ret)
    /\ rpc' = "idle"
    /\ UNCHANGED <<sd, cbpc, cb_arr, callbacks, delivered, overflows>>
    /\ UNCHANGED <<workerVars, feedVars, _model>>
    /\ UNCHANGED extVars

\* recorder.list_devices(), called on a new recorder before anything else (the
\* listing does not depend on the recorder's state); the listing is returned as an
\* array of the ids.
CallListDevices ==
    /\ rpc = "idle"
    /\ ret = NoReturn
    /\ \E env \in StartEnvs(sd) :
         ret' = IF list_devices_raises(env)
                THEN Returned("list_devices", "Exception", NoneArray)
                ELSE Returned("list_devices", "", Array("list", list_devices(env)))
    /\ UNCHANGED <<recorderVars, rpc>>
    /\ UNCHANGED <<workerVars, feedVars, _model>>
    /\ UNCHANGED extVars

\* recorder.get_overflow_count(), called by the controlling thread once start()
\* has returned; no lock is taken (recorder.py has none).
CallGetOverflowCount ==
    /\ rpc = "idle"
    /\ ret.op = "start" /\ ret.exc = ""
    /\ ret' = Returned("get_overflow_count", "",
                       Array("int", <<get_overflow_count(recorder)>>))
    /\ UNCHANGED <<recorderVars, rpc>>
    /\ UNCHANGED <<workerVars, feedVars, _model, extVars>>

CallerCallback ==
    Callback /\ UNCHANGED <<workerVars, callerVars, feedVars, _model, extVars>>

NextRecorder ==
    \/ \E d \in {0, 9999} : CallSetDevice(d)
    \/ CallStart
    \/ CallStopFlag
    \/ CallStopStream
    \/ CallListDevices
    \/ CallGetOverflowCount
    \/ CallerCallback

SpecRecorder == Init /\ [][NextRecorder]_vars

(***************************************************************************)
(* A Transcriber fed PCM byte strings.                                     *)
(***************************************************************************)
\* The byte strings fed: the shortest ones and lengths around MaxChunks full chunks,
\* with bytes that make samples of both signs.
PcmLengths ==
    {0, 1, 2} \cup {MaxChunks * (2 * chunk_size) + d : d \in {-1, 0, 2}}
MkPcm(L) == [i \in 1..L |-> (i * 37 + 11) % 256]

\* The inputs of the feed_pcm call are drawn in the initial state.
InitFeed ==
    /\ InitObjects
    /\ InitHotkeyManager
    /\ sd
    /\ pcm_bytes \in {MkPcm(L) : L \in PcmLengths}
    /\ kaldi \in KaldiEnvs(MaxChunks + 1)

\* transcriber.load_model(), called before the audio is passed in.
FeedLoadModel ==
    /\ fpc = "idle"
    /\ _model < MaxLoads
    /\ \E ok \in BOOLEAN : _model' = load_model(_model, ok)
    /\ UNCHANGED <<recorderVars, workerVars, callerVars, feedVars>>
    /\ UNCHANGED extVars

\* transcriber.feed_pcm(pcm_bytes)
FeedPcm ==
    /\ fpc = "idle"
    /\ LET out == feed_pcm(_model, pcm_bytes, kaldi)
       IN  feed_out' = [model |-> _model, exc |-> out.exc, text |-> out.text,
                        calls |-> out.calls]
    /\ fpc' = "fed"
    /\ UNCHANGED <<recorderVars, workerVars, callerVars, _model, pcm_bytes, kaldi>>
    /\ UNCHANGED extVars

\* The arrays passed to transcribe directly: None, empty arrays, a short float
\* array, and the samples of the byte string when it has a whole number of them.
FeedAudio ==
    {NoneArray, EmptyInt16, Array("float", <<>>), Array("float", <<1500, -250>>)}
    \cup (IF frombuffer_raises(pcm_bytes) THEN {} ELSE {frombuffer(pcm_bytes)})

\* transcriber.transcribe(audio)
FeedTranscribe ==
    /\ fpc = "idle"
    /\ \E audio \in FeedAudio :
         LET out == transcribe(_model, audio, kaldi)
         IN  /\ transcribing' = audio
             /\ feed_out' = [model |-> _model, exc |-> out.exc, text |-> out.text,
                              calls |-> out.calls]
    /\ fpc' = "transcribed"
    /\ UNCHANGED <<pc, _should_stop, should_stop, worker_audio_data, emitted, status,
                   stopCalls, resets>>
    /\ UNCHANGED <<recorderVars, callerVars, _model, pcm_bytes, kaldi>>
    /\ UNCHANGED extVars

NextFeed ==
    \/ FeedLoadModel
    \/ FeedPcm
    \/ FeedTranscribe

SpecFeed == InitFeed /\ [][NextFeed]_vars

(***************************************************************************)
(* The named-pipe listener  (src/core/fifo_consumer.py) forwarding each    *)
(* writer's payload to RecordingWorker.process_pcm.                        *)
(***************************************************************************)
\* A payload is a byte string. A WAV container is written here as the four bytes
\* "RIFF", one byte for the channel count and one for the sample width, then the
\* frames; the wave module rejects a container whose header is cut short or
\* declares no channel or no sample width.
RIFF == <<82, 73, 70, 70>>
Slice(buf, n) == SubSeq(buf, 1, IF n < Len(buf) THEN n ELSE Len(buf))
Wav(channels, sampwidth, frames) == RIFF \o <<channels, sampwidth>> \o frames

\* wave.open(io.BytesIO(buf), "rb") and the three reads of lines 28-30.
wave_open(buf) ==
    IF Len(buf) < 6 \/ buf[5] = 0 \/ buf[6] = 0
    THEN [exc |-> "wave.Error", channels |-> 0, sampwidth |-> 0, frames |-> <<>>]
    ELSE [exc |-> "", channels |-> buf[5], sampwidth |-> buf[6],
          frames |-> SubSeq(buf, 7, Len(buf))]

\* Mutant of _extract_pcm_from_buf: the declared format is not looked at.
_extract_pcm_from_buf_any_format(buf) ==
    IF buf = <<>> THEN [exc |-> "", pcm |-> <<>>]
    ELSE IF Slice(buf, 4) = RIFF
    THEN LET wf == wave_open(buf)
         IN  IF wf.exc # "" THEN [exc |-> wf.exc, pcm |-> <<>>]
             ELSE [exc |-> "", pcm |-> wf.frames]
    ELSE [exc |-> "", pcm |-> buf]

\* _extract_pcm_from_buf: the exception raised ("" if none) and the bytes returned.
_extract_pcm_from_buf(buf) ==
    IF buf = <<>> THEN [exc |-> "", pcm |-> <<>>]
    ELSE IF Slice(buf, 4) = RIFF
    THEN LET wf == wave_open(buf)
         IN  IF wf.exc # "" THEN [exc |-> wf.exc, pcm |-> <<>>]
             ELSE IF wf.sampwidth # 2 \/ wf.channels # 1
             THEN [exc |-> "RuntimeError", pcm |-> <<>>]
             ELSE [exc |-> "", pcm |-> wf.frames]
    ELSE [exc |-> "", pcm |-> buf]

\* Mutant of new_recognizer: the first recognizer constructed is kept and used
\* again by later calls.
new_recognizer_cached(recs) == 1

\* transcriber.py line 103: KaldiRecognizer(self._model, self.sample_rate) returns
\* a new object, bound to the local name `recognizer`; its index among the
\* recognizers constructed so far.
new_recognizer(recs) == Len(recs) + 1

\* Lines 103-118: the calls of the n-th transcribe() are made on `recognizer`.
\* A constructor that raised leaves no object behind.
dispatch(recs, n, calls) ==
    IF calls = <<>> \/ (Len(calls) = 1 /\ kaldi.ctor = "raise")
    THEN recs
    ELSE LET id == new_recognizer(recs)
             received == [k \in 1..Len(calls) |-> [call |-> n, op |-> calls[k].op]]
         IN  IF id > Len(recs)
             THEN Append(recs, received)
             ELSE [recs EXCEPT ![id] = @ \o received]

\* Mutant of process_pcm: empty bytes are not short-circuited.
process_pcm_no_empty_check(log, st, model, bytes, env) ==
    LET log1 == Emit(log, "transcription_started", "")
        out == feed_pcm(model, bytes, env)
    IN  IF out.exc = ""
        THEN [emitted |-> Emit(log1, "transcription_complete", out.text),
              status |-> "Ready"]
        ELSE [emitted |-> Emit(log1, "transcription_error", "Transcription error"),
              status |-> "Processing..."]

\* RecordingWorker.process_pcm: the notifications and the status it leaves. Both
\* handlers (lines 125-128) end the call normally, so it raises nothing.
process_pcm(log, st, model, bytes, env) ==
    IF bytes = <<>>
    THEN [emitted |-> Emit(log, "transcription_error", "No audio provided"),
          status |-> st]
    ELSE LET log1 == Emit(log, "transcription_started", "")
             out == feed_pcm(model, bytes, env)
         IN  IF out.exc = ""
             THEN [emitted |-> Emit(log1, "transcription_complete", out.text),
                   status |-> "Ready"]
             ELSE [emitted |-> Emit(log1, "transcription_error",
                                    IF out.exc = "TranscriberError"
                                    THEN "Transcription error"
                                    ELSE "Unexpected error"),
                   status |-> "Processing..."]

\* What writers put into the pipe: nothing, raw PCM (a whole sample, half a
\* sample, fewer than four bytes), and containers: mono 16-bit with and without
\* frames, stereo, 8-bit, both, and one with its header cut short.
Payloads ==
    {<<>>, <<1, 2>>, <<7>>, <<82, 73, 70, 1, 2, 3>>,
     Wav(1, 2, <<3, 4>>), Wav(1, 2, <<>>), Wav(2, 2, <<3, 4, 5, 6>>),
     Wav(1, 1, <<3>>), Wav(2, 1, <<3, 4>>), RIFF \o <<1>>}

\* The worker handed to listen_and_forward, and how its recognizer behaves.
InitFifo ==
    /\ InitObjects
    /\ InitHotkeyManager
    /\ sd
    /\ pcm_bytes = <<>>
    /\ kaldi \in KaldiEnvs(1)

\* transcriber.load_model() by a caller that loads the model before it listens;
\* scripts/fifo_listener.main (lines 40-44) makes no such call.
FifoLoadModel ==
    /\ fifo_pc = "open"
    /\ writers = 0
    /\ _model = 0
    /\ \E ok \in BOOLEAN : _model' = load_model(_model, ok)
    /\ UNCHANGED <<recorderVars, workerVars, callerVars, feedVars, fifoVars, appVars>>

\* Lines 56-60: a writer opens the pipe, writes `buf` and closes it; an empty
\* payload is ignored.
FifoRead(buf) ==
    /\ fifo_pc = "open"
    /\ writers < MaxWriters
    /\ writers' = writers + 1
    /\ fifo_buf' = buf
    /\ fifo_pc' = IF buf = <<>> THEN "open" ELSE "extract"
    /\ UNCHANGED <<fifo_pcm, forwarded, recognizers>>
    /\ UNCHANGED <<recorderVars, workerVars, callerVars, feedVars, _model, appVars>>

\* Mutant of FifoExtract: a parse failure escapes listen_and_forward.
FifoExtract_Raises ==
    /\ fifo_pc = "extract"
    /\ LET out == _extract_pcm_from_buf(fifo_buf)
       IN  IF out.exc # ""
           THEN fifo_pc' = "raised" /\ UNCHANGED fifo_pcm
           ELSE fifo_pc' = "forward" /\ fifo_pcm' = out.pcm
    /\ UNCHANGED <<fifo_buf, forwarded, writers, recognizers>>
    /\ UNCHANGED <<recorderVars, workerVars, callerVars, feedVars, _model, appVars>>

\* Lines 62-66: the payload is parsed; a payload that is rejected is dropped.
FifoExtract ==
    /\ fifo_pc = "extract"
    /\ LET out == _extract_pcm_from_buf(fifo_buf)
       IN  IF out.exc # ""
           THEN fifo_pc' = "open" /\ UNCHANGED fifo_pcm
           ELSE fifo_pc' = "forward" /\ fifo_pcm' = out.pcm
    /\ UNCHANGED <<fifo_buf, forwarded, writers, recognizers>>
    /\ UNCHANGED <<recorderVars, workerVars, callerVars, feedVars, _model, appVars>>

\* Lines 68-71: worker.process_pcm(pcm).
FifoForward ==
    /\ fifo_pc = "forward"
    /\ forwarded' = Append(forwarded, fifo_pcm)
    /\ LET out == process_pcm(emitted, status, _model, fifo_pcm, kaldi)
       IN  emitted' = out.emitted /\ status' = out.status
    /\ recognizers' = IF fifo_pcm = <<>>
                      THEN recognizers
                      ELSE dispatch(recognizers, Len(forwarded) + 1,
                                    feed_pcm(_model, fifo_pcm, kaldi).calls)
    /\ feed_out' = IF fifo_pcm = <<>>
                   THEN feed_out
                   ELSE LET out == feed_pcm(_model, fifo_pcm, kaldi)
                        IN  [model |-> _model, exc |-> out.exc, text |-> out.text,
                             calls |-> out.calls]
    /\ fifo_pc' = "open"
    /\ UNCHANGED <<fifo_buf, fifo_pcm, writers>>
    /\ UNCHANGED <<pc, _should_stop, should_stop, worker_audio_data, stopCalls, resets,
                   transcribing>>
    /\ UNCHANGED <<recorderVars, callerVars, pcm_bytes, kaldi, fpc, _model, appVars>>

\* Lines 72-74: KeyboardInterrupt, wherever the loop is; it is not an Exception,
\* so the handlers of lines 64, 70 and 75 let it through.
FifoInterrupt ==
    /\ fifo_pc # "exited"
    /\ fifo_pc' = "exited"
    /\ UNCHANGED <<fifo_buf, fifo_pcm, forwarded, writers, recognizers>>
    /\ UNCHANGED <<recorderVars, workerVars, callerVars, feedVars, _model, appVars>>

NextFifo ==
    \/ FifoLoadModel
    \/ \E buf \in Payloads : FifoRead(buf)
    \/ FifoExtract
    \/ FifoForward
    \/ FifoInterrupt

SpecFifo == InitFifo /\ [][NextFifo]_vars

(***************************************************************************)
(* Translator.translate called directly (SpecTranslator).                  *)
(***************************************************************************)
\* translate() of lines 42-92. `env` gives, for each engine, what
\* ts.translate_text does when called with it: it returns a str, returns a dict,
\* or raises. The result is the translator afterwards, the engines called in
\* order, the exception raised ("" when the call returned) and the value returned.
target_code(target_language) ==
    IF target_language \in DOMAIN SUPPORTED_LANGUAGES
    THEN SUPPORTED_LANGUAGES[target_language]
    ELSE IF \E name \in DOMAIN SUPPORTED_LANGUAGES :
                SUPPORTED_LANGUAGES[name] = target_language
    THEN target_language
    ELSE ""

\* Mutant of ENGINES: bing is tried first.
ENGINES_bing_first == <<"bing", "google">>

ENGINES == <<"google", "bing">>

\* Lines 73-80: line 80 is reached when translate_text did not raise.
engine_succeeded(outcome) == outcome # "raise"

\* Lines 69-92, from the i-th engine on.
RECURSIVE try_engines(_, _, _, _, _, _)
try_engines(tr, text, code, env, i, calls) ==
    IF i > Len(ENGINES)
    THEN [tr |-> tr, calls |-> calls, exc |-> "TranslatorError",
          msg |-> "All translation engines failed", value |-> EmptyStr]
    ELSE LET engine == ENGINES[i]
             tr1 == IF engine_succeeded(env[engine])
                    THEN [tr EXCEPT !._last_engine = engine]
                    ELSE tr
         IN  IF env[engine] = "raise"
             THEN try_engines(tr1, text, code, env, i + 1, Append(calls, engine))
             ELSE [tr |-> tr1, calls |-> Append(calls, engine), exc |-> "", msg |-> "",
                   value |-> translate_text(text, engine, code, env[engine])]

translate(tr, text, target_language, env) ==
    IF ~isinstance_str(text)
    THEN [tr |-> tr, calls |-> <<>>, exc |-> "TranslatorError",
          msg |-> "text must be a str", value |-> EmptyStr]
    ELSE IF strip(text.chars) = <<>>
    THEN [tr |-> tr, calls |-> <<>>, exc |-> "", msg |-> "", value |-> EmptyStr]
    ELSE IF target_code(target_language) = ""
    THEN [tr |-> tr, calls |-> <<>>, exc |-> "TranslatorError",
          msg |-> "Unsupported target language", value |-> EmptyStr]
    ELSE try_engines(tr, text, target_code(target_language), env, 1, <<>>)

get_last_engine(tr) == tr._last_engine

\* The arguments and the engines' behaviour that the model draws from.
Texts == {PyNone, PyStr(<<>>), PyStr(<<" ">>), PyStr(<<"\t", " ">>),
          PyStr(<<"o", "i">>), PyStr(<<" ", "o", " ">>)}
TargetLanguages == {"English", "Japanese", "es", "Klingon", "pt"}
EngineEnvs == [{"google", "bing"} -> {"str", "dict", "raise"}]

\* One translate(text, target_language) call on the translator.
Translate(text, target_language, env) ==
    LET out == translate(translator, text, target_language, env)
    IN  /\ translator' = out.tr
        /\ tr_out' = [text |-> text, target_language |-> target_language, env |-> env,
                      calls |-> out.calls, exc |-> out.exc, msg |-> out.msg,
                      value |-> out.value, before |-> get_last_engine(translator)]
        /\ UNCHANGED <<recorderVars, workerVars, callerVars, feedVars, _model,
                       fifoVars, uiVars, hkVars>>

NextTranslator ==
    \E text \in Texts, target_language \in TargetLanguages, env \in EngineEnvs :
        Translate(text, target_language, env)

SpecTranslator == Init /\ [][NextTranslator]_vars

(***************************************************************************)
(* FloatingWidget._on_record_toggled and the workers it starts (SpecUI).   *)
(* Each RecordingWorker is followed through the stages of run() that the   *)
(* widget's sessions depend on: its notifications and its input stream.    *)
(***************************************************************************)
\* RecordingWorker(self.transcriber) followed by worker.start() (main_window.py
\* 579-580, workers.py 26-32): the thread is started, run() has not begun, the
\* worker's own recorder has no stream.
NewWorker == [phase |-> "started", _should_stop |-> FALSE, stream |-> "none"]

\* Lines 586-598: the handler for toggled(False).
toggled_off(u, ws) ==
    [ui |-> [u EXCEPT !.status_label = "Processing..."],
     workers |-> IF u.worker # 0
                 THEN [ws EXCEPT ![u.worker]._should_stop = stop_recording(@)]
                 ELSE ws]

\* record_button.setChecked(False): toggled(False) is emitted, and its handler
\* runs, when the button was checked.
setChecked_False(u, ws) ==
    IF u.checked THEN toggled_off([u EXCEPT !.checked = FALSE], ws)
    ELSE [ui |-> u, workers |-> ws]

\* Mutant of _on_record_toggled: the `return` of line 577 is missing.
_on_record_toggled_no_return(u, ws, checked, load_ok) ==
    IF checked
    THEN LET u1 == [u EXCEPT !.toggle = 1 - @]
             off == IF load_ok
                    THEN [ui |-> u1, workers |-> ws]
                    ELSE setChecked_False([u1 EXCEPT !.status_label = "Model error",
                                                     !.last = "model_error"], ws)
         IN  [ui |-> [off.ui EXCEPT !.status_label = "Recording...",
                                    !.worker = Len(ws) + 1,
                                    !.last = IF load_ok THEN "started" ELSE @],
              workers |-> Append(off.workers, NewWorker)]
    ELSE toggled_off([u EXCEPT !.last = "stop_requested"], ws)

\* Lines 564-600. `checked` is the button's new state and `load_ok` whether
\* load_model() of line 573 returns; when it raises TranscriberError the handler
\* sets the label, unchecks the button and returns (574-577).
_on_record_toggled(u, ws, checked, load_ok) ==
    IF checked
    THEN LET u1 == [u EXCEPT !.toggle = 1 - @]
         IN  IF ~load_ok
             THEN setChecked_False([u1 EXCEPT !.status_label = "Model error",
                                              !.last = "model_error"], ws)
             ELSE [ui |-> [u1 EXCEPT !.status_label = "Recording...",
                                     !.worker = Len(ws) + 1,
                                     !.last = "started"],
                   workers |-> Append(ws, NewWorker)]
    ELSE toggled_off([u EXCEPT !.last = "stop_requested"], ws)

UIUnchanged ==
    UNCHANGED <<recorderVars, workerVars, callerVars, feedVars, _model, fifoVars, trVars,
                hkVars>>

\* The user clicks the record button (or presses F8): the button changes state
\* and toggled(checked) runs the handler on the UI thread.
Click(load_ok) ==
    /\ ui.checked \/ Len(ui_workers) < MaxWorkers
    /\ LET out == _on_record_toggled([ui EXCEPT !.checked = ~@], ui_workers,
                                     ~ui.checked, load_ok)
       IN  ui' = out.ui /\ ui_workers' = out.workers
    /\ UNCHANGED tr_workers
    /\ UIUnchanged

\* workers.py 41-42 in the thread of worker i: recording_started is emitted.
WorkerBegin(i) ==
    /\ ui_workers[i].phase = "started"
    /\ ui_workers' = [ui_workers EXCEPT ![i].phase = "begun"]
    /\ UNCHANGED <<ui, tr_workers>>
    /\ UIUnchanged

\* Line 44: recorder.start() opens the worker's input stream, or raises and the
\* run ends with its terminal notification (73-74).
WorkerStart(i, ok) ==
    /\ ui_workers[i].phase = "begun"
    /\ ui_workers' = IF ok
                     THEN [ui_workers EXCEPT ![i].phase = "polling", ![i].stream = "open"]
                     ELSE [ui_workers EXCEPT ![i].phase = "done"]
    /\ UNCHANGED <<ui, tr_workers>>
    /\ UIUnchanged

\* Lines 47-59: the poll reads the flag as set, recorder.stop() closes the stream
\* and recording_stopped is emitted.
WorkerStop(i) ==
    /\ ui_workers[i].phase = "polling"
    /\ ui_workers[i]._should_stop
    /\ ui_workers' = [ui_workers EXCEPT ![i].phase = "stopped", ![i].stream = "closed"]
    /\ UNCHANGED <<ui, tr_workers>>
    /\ UIUnchanged

\* Lines 61-78: the terminal notification (transcription_complete or
\* transcription_error) is emitted and run() returns.
WorkerFinish(i) ==
    /\ ui_workers[i].phase = "stopped"
    /\ ui_workers' = [ui_workers EXCEPT ![i].phase = "done"]
    /\ UNCHANGED <<ui, tr_workers>>
    /\ UIUnchanged

\* QThread.quit() on a TranslationWorker: it asks the thread's event loop to
\* exit, and run() (workers.py 146-162) starts no event loop, so the worker goes
\* on as it was.
quit(w) == w

\* _on_translate_clicked (main_window.py 272-287): quit() on the worker held, if
\* any, then a new TranslationWorker is constructed, kept and started.
TranslateClicked ==
    /\ Len(tr_workers) < MaxTranslations
    /\ LET held == ui.translation_worker
           ws == IF held # 0 THEN [tr_workers EXCEPT ![held] = quit(@)] ELSE tr_workers
       IN  /\ tr_workers' = Append(ws, [phase |-> "started", outcome |-> ""])
           /\ ui' = [ui EXCEPT !.translation_worker = Len(ws) + 1]
    /\ UNCHANGED ui_workers
    /\ UIUnchanged

\* TranslationWorker.run, lines 148-149: translation_started is emitted, and
\* _on_translation_started (main_window.py 289-292) clears the translation box.
TranslationBegin(i) ==
    /\ tr_workers[i].phase = "started"
    /\ tr_workers' = [tr_workers EXCEPT ![i].phase = "translating"]
    /\ ui' = [ui EXCEPT !.status_label = "Translating...", !.translation_text = 0]
    /\ UNCHANGED ui_workers
    /\ UIUnchanged

\* Lines 151-158: translate() returns and translation_complete is emitted, which
\* _on_translation_complete (main_window.py 294-297) puts into the translation
\* box; or translate() raises and translation_error is emitted (299-300).
TranslationEnd(i, ok) ==
    /\ tr_workers[i].phase = "translating"
    /\ tr_workers' = [tr_workers EXCEPT ![i].phase = "done",
                                        ![i].outcome = IF ok THEN "complete" ELSE "error"]
    /\ ui' = IF ok
             THEN [ui EXCEPT !.status_label = "Translation complete",
                             !.translation_text = i]
             ELSE [ui EXCEPT !.status_label = "Translation error"]
    /\ UNCHANGED ui_workers
    /\ UIUnchanged

NextUI ==
    \/ TranslateClicked
    \/ \E i \in 1..Len(tr_workers) : TranslationBegin(i)
    \/ \E i \in 1..Len(tr_workers), ok \in BOOLEAN : TranslationEnd(i, ok)
    \/ \E load_ok \in BOOLEAN : Click(load_ok)
    \/ \E i \in 1..Len(ui_workers) : WorkerBegin(i)
    \/ \E i \in 1..Len(ui_workers), ok \in BOOLEAN : WorkerStart(i, ok)
    \/ \E i \in 1..Len(ui_workers) : WorkerStop(i)
    \/ \E i \in 1..Len(ui_workers) : WorkerFinish(i)

SpecUI == Init /\ [][NextUI]_vars

(***************************************************************************)
(* HotkeyManager (SpecHotkeys).                                            *)
(***************************************************************************)
\* register_f8, lines 190-201 and 216-226: the QShortcut fallback. `how` is "ok",
\* "ctor_raises" (the import or the constructor raises, nothing is assigned) or
\* "connect_raises" (the shortcut has been constructed and assigned at line 195 or
\* 221 but no callback is connected; a QShortcut is enabled from its
\* construction).
fallback_shortcut(m, kb, how) ==
    IF ~m.widget \/ how = "ctor_raises"
    THEN [m |-> m, kb |-> kb]
    ELSE [m |-> [m EXCEPT !._shortcut = Len(kb.shortcuts) + 1],
          kb |-> [kb EXCEPT !.shortcuts =
                      Append(@, [enabled |-> TRUE, connected |-> how = "ok"])]]

\* register_f8, lines 180-226. `env.add` is whether keyboard.add_hotkey returns
\* ("ok") or raises.
register_f8(m, kb, env) ==
    IF ~kb.available
    THEN fallback_shortcut(m, kb, env.shortcut)
    ELSE IF env.add = "ok"
    THEN LET handler == Len(kb.added) + 1
         IN  [m |-> [m EXCEPT !._keyboard = TRUE, !._keyboard_hotkey = handler],
              kb |-> [kb EXCEPT !.added = Append(@, handler)]]
    ELSE fallback_shortcut(m, kb, env.shortcut)

\* unregister_all, lines 228-244. `env.remove` and `env.disable` are whether
\* remove_hotkey and setEnabled(False) return ("ok") or raise.
unregister_all(m, kb, env) ==
    LET kb1 == IF m._keyboard
               THEN [kb EXCEPT !.removed = Append(@, m._keyboard_hotkey)]
               ELSE kb
        m1 == IF m._keyboard
              THEN [m EXCEPT !._keyboard = FALSE, !._keyboard_hotkey = 0]
              ELSE m
        kb2 == IF m._shortcut # 0
               THEN [kb1 EXCEPT !.disabled = Append(@, m._shortcut),
                                !.shortcuts[m._shortcut].enabled =
                                    IF env.disable = "ok" THEN FALSE ELSE @]
               ELSE kb1
    IN  [m |-> [m1 EXCEPT !._shortcut = 0], kb |-> kb2]

RegisterEnvs == [add : {"ok", "raises"}, shortcut : {"ok", "ctor_raises", "connect_raises"}]
UnregisterEnvs == [remove : {"ok", "raises"}, disable : {"ok", "raises"}]

HotkeysUnchanged ==
    UNCHANGED <<recorderVars, workerVars, callerVars, feedVars, _model, fifoVars, trVars,
                uiVars>>

\* The manager is built with or without a widget, in a process where the
\* keyboard module can or cannot be imported.
InitHotkeys ==
    /\ InitObjects
    /\ pcm_bytes = <<>>
    /\ kaldi = NoKaldi
    /\ sd
    /\ hotkey_manager \in {NewHotkeyManager(w) : w \in BOOLEAN}
    /\ keyboard \in {NewKeyboard(a) : a \in BOOLEAN}

RegisterF8(env) ==
    /\ Len(keyboard.calls) < MaxHotkeyCalls
    /\ LET out == register_f8(hotkey_manager, keyboard, env)
       IN  /\ hotkey_manager' = out.m
           /\ keyboard' = [out.kb EXCEPT !.calls = Append(@, "register_f8")]
    /\ HotkeysUnchanged

UnregisterAll(env) ==
    /\ Len(keyboard.calls) < MaxHotkeyCalls
    /\ LET out == unregister_all(hotkey_manager, keyboard, env)
       IN  /\ hotkey_manager' = out.m
           /\ keyboard' = [out.kb EXCEPT !.calls = Append(@, "unregister_all")]
    /\ HotkeysUnchanged

NextHotkeys ==
    \/ \E env \in RegisterEnvs : RegisterF8(env)
    \/ \E env \in UnregisterEnvs : UnregisterAll(env)

SpecHotkeys == InitHotkeys /\ [][NextHotkeys]_vars

\* The worker thread is scheduled fairly, and so is the audio callback thread.
FairSpec == Spec /\ WF_vars(Run) /\ WF_vars(WorkerCallback)

(***************************************************************************)
(* Properties of RecordingWorker.run                                       *)
(***************************************************************************)
Last(log) == log[Len(log)]
Count(log, names) == Cardinality({i \in 1..Len(log) : log[i][1] \in names})
Terminals(log) == Count(log, {"transcription_complete", "transcription_error"})
Position(log, name) == CHOOSE i \in 0..Len(log) :
                          /\ i > 0 => log[i][1] = name
                          /\ i = 0 => \A j \in 1..Len(log) : log[j][1] # name
AllClosed == \A i \in 1..Len(streams) : streams[i] = "closed"

\* C1: a run that has terminated has emitted exactly one terminal notification
\* (transcription_complete or transcription_error), a run that has not terminated
\* has emitted none, and a failure of start(), stop() or transcribe() is what that
\* notification reports.
C1_ExactlyOneTerminal ==
    /\ pc = "done" => /\ Terminals(emitted) = 1
                      /\ Last(emitted)[1] \in {"transcription_complete",
                                               "transcription_error"}
    /\ pc # "done" => Terminals(emitted) = 0

C1_Witness ==
    /\ pc = "done"
    /\ Last(emitted) = <<"transcription_error", "Unexpected error">>

\* C2: while Transcriber.transcribe is executing in run(), recorder.stop() has
\* returned: is_recording() is false, the recorder holds no stream, every stream it
\* opened is stopped and closed, and no callback is running or can run.
C2_TranscribeAfterStop ==
    pc = "transcribing" =>
        /\ ~is_recording(recorder)
        /\ recorder._stream = NoStream
        /\ AllClosed
        /\ ~StreamActive
        /\ cbpc = "idle"
        /\ Position(emitted, "recording_stopped") > 0

C2_Witness ==
    /\ pc = "transcribing"
    /\ Len(streams) = 1
    /\ Len(transcribing.data) > 0

\* C3: after run() has terminated through a failure of start(), stop() or
\* transcribe(), the recorder is not recording, holds no stream, every stream it
\* opened is closed and its buffer is empty.
C3_TornDownAfterError ==
    (/\ pc = "done"
     /\ Last(emitted)[1] = "transcription_error"
     /\ Last(emitted)[2] \in {"Recording error", "Unexpected error",
                              "Transcription error"})
    => /\ ~is_recording(recorder)
       /\ recorder._stream = NoStream
       /\ AllClosed
       /\ recorder._audio_data = <<>>

\* C4: a run that ends with transcription_complete has emitted exactly
\* recording_started, recording_stopped, transcription_started,
\* transcription_complete; in every run each notification is emitted at most once,
\* transcription_started only after recording_stopped, transcription_complete only
\* after transcription_started, and recording_stopped only once the poll has read
\* the stop flag as set.
C4_NotificationOrder ==
    /\ (pc = "done" /\ Last(emitted)[1] = "transcription_complete")
         => Names(emitted) = <<"recording_started", "recording_stopped",
                               "transcription_started", "transcription_complete">>
    /\ \A n \in {"recording_started", "recording_stopped", "transcription_started",
                 "transcription_complete", "transcription_error"} :
           Count(emitted, {n}) <= 1
    /\ Position(emitted, "transcription_started") > 0
         => /\ Position(emitted, "recording_stopped") > 0
            /\ Position(emitted, "recording_stopped")
                 < Position(emitted, "transcription_started")
    /\ Position(emitted, "transcription_complete") > 0
         => /\ Position(emitted, "transcription_started") > 0
            /\ Position(emitted, "transcription_started")
                 < Position(emitted, "transcription_complete")
    /\ Position(emitted, "recording_stopped") > 0 => should_stop

C4_Witness ==
    /\ pc = "done"
    /\ Names(emitted) = <<"recording_started", "recording_stopped",
                          "transcription_started", "transcription_complete">>
    /\ Last(emitted)[2] = "hello world"

\* C5: under fair scheduling, once the stop flag is set while run() is in its poll
\* loop, run() terminates with the recorder stopped and its terminal notification
\* emitted, unless reset() clears the flag while run() is still in the loop.
InLoop == pc \in {"poll", "sleep"}

C5_StopLeadsToDone ==
    (InLoop /\ _should_stop)
      ~> \/ pc = "done" /\ Terminals(emitted) = 1 /\ ~is_recording(recorder)
         \/ InLoop /\ ~_should_stop

C5_Witness ==
    /\ pc = "done"
    /\ stopCalls > 0
    /\ resets = 0
    /\ should_stop
    /\ Terminals(emitted) = 1

\* C6: a stop_recording() call, in whatever state it is made, leaves the flag set
\* and changes nothing else: not the position of run(), not the notifications, not
\* the recorder, its streams or its buffer, not the audio being transcribed; a call
\* made when the flag is already set changes nothing at all, and nothing but
\* reset() ever clears the flag.
C6_StopRecordingIdempotent ==
    [][/\ stopCalls' # stopCalls =>
            /\ _should_stop'
            /\ UNCHANGED <<pc, should_stop, worker_audio_data, emitted, status, resets,
                           transcribing, recorderVars, _model>>
       /\ (_should_stop /\ resets' = resets) => _should_stop']_vars

C6_Witness ==
    /\ stopCalls >= 2
    /\ pc = "transcribing"
    /\ _should_stop

(***************************************************************************)
(* Properties of AudioRecorder                                             *)
(***************************************************************************)
\* C7: when start() has raised, is_recording() is false and the recorder holds no
\* stream.
C7_NoPartialStateAfterStartError ==
    (ret.op = "start" /\ ret.exc = "AudioRecorderError")
      => /\ ~is_recording(recorder)
         /\ recorder._stream = NoStream

\* C8: a stop() that ends a recording session returns an int16 array that is the
\* concatenation, in arrival order, of the blocks the callback appended since the
\* session's start(): its length is the sum of their lengths and it is the empty
\* int16 array when there were none; three blocks of 160 samples of one value give
\* 480 samples of that value.
ConstantBlock(n, v) == [i \in 1..n |-> v]

C8_StopReturnsConcatenation ==
    /\ (ret.op = "stop" /\ ret.exc = "")
         => /\ ret.value.dtype = "int16"
            /\ ret.value.data = Concatenate(delivered)
            /\ Len(ret.value.data) = SumLen(delivered)
            /\ delivered = <<>> => ret.value = EmptyInt16
    /\ Concatenate(<<ConstantBlock(160, 1234), ConstantBlock(160, 1234),
                     ConstantBlock(160, 1234)>>) = ConstantBlock(480, 1234)

C8_Witness ==
    /\ ret.op = "stop"
    /\ ret.exc = ""
    /\ Len(delivered) = 2
    /\ delivered[1] # delivered[2]
    /\ Len(ret.value.data) = 3

\* C9: get_overflow_count() is the number of overflow-flagged callback invocations
\* of the current session: start() resets it, every overflow-flagged invocation
\* adds one, no other invocation changes it, so after stop() it is that number.
C9_OverflowCount == get_overflow_count(recorder) = overflows

C9_Witness ==
    /\ ret.op = "stop"
    /\ ret.exc = ""
    /\ Len(streams) = 2
    /\ callbacks = 2
    /\ overflows = 1
    /\ get_overflow_count(recorder) = 1

(***************************************************************************)
(* Properties of Transcriber                                               *)
(***************************************************************************)
Accepted(calls) ==
    LET idx == {i \in 1..Len(calls) : calls[i].op = "AcceptWaveform"}
    IN  [k \in 1..Cardinality(idx) |->
            calls[CHOOSE i \in idx : Cardinality({j \in idx : j < i}) = k - 1].data]

CeilDiv(a, b) == (a + b - 1) \div b

RecognizerWorks == kaldi.available /\ kaldi.ctor = "ok" /\ kaldi.accept = 0

Chunked(bytes, chunks) ==
    /\ Len(chunks) = CeilDiv(Len(bytes), 8000)
    /\ \A k \in 1..Len(chunks) : Len(chunks[k]) <= 8000
    /\ Concatenate(chunks) = bytes

FeedDone == fpc \in {"fed", "transcribed"}
CountOp(calls, op) == Cardinality({i \in 1..Len(calls) : calls[i].op = op})
Rank(op) == CASE op = "KaldiRecognizer" -> 0
              [] op = "AcceptWaveform" -> 1
              [] op = "FinalResult" -> 2
              [] op = "Result" -> 3
FinalFails == kaldi.final \in {"garbage", "raise"}
ResultFails == kaldi.result \in {"garbage", "raise"}
SampleCount == IF fpc = "fed" THEN Len(pcm_bytes) \div 2 ELSE Len(transcribing.data)

EmptyInput ==
    IF fpc = "fed" THEN pcm_bytes = <<>>
    ELSE transcribing = NoneArray \/ Len(transcribing.data) = 0

C12_EmptyInputShortCircuit ==
    (FeedDone /\ feed_out.model # 0 /\ EmptyInput)
      => /\ feed_out.exc = ""
         /\ feed_out.text = ""
         /\ feed_out.calls = <<>>

C12_Witness ==
    /\ fpc = "transcribed"
    /\ feed_out.model # 0
    /\ transcribing = Array("float", <<>>)
    /\ kaldi.ctor = "raise"
    /\ feed_out.exc = ""
    /\ feed_out.calls = <<>>

\* C13: while no load_model() call has succeeded, transcribe and feed_pcm raise
\* TranscriberError for every input, the empty ones included, and construct no
\* recognizer.
C13_NotLoadedRaises ==
    (FeedDone /\ feed_out.model = 0)
      => /\ feed_out.exc = "TranscriberError"
         /\ feed_out.calls = <<>>

C13_Witness ==
    /\ fpc = "transcribed"
    /\ feed_out.model = 0
    /\ transcribing = EmptyInt16
    /\ feed_out.exc = "TranscriberError"

\* C14: once load_model() has succeeded, the model held by the instance is never
\* replaced.
C14_LoadOnce == [][_model # 0 => _model' = _model]_vars

\* C15: transcribe and feed_pcm raise nothing but TranscriberError: a byte string
\* that is not a whole number of samples, a missing recognizer class, a failing
\* constructor and a failing AcceptWaveform all surface as TranscriberError, and
\* the failing AcceptWaveform is the last call made on the recognizer.
OddFed == fpc = "fed" /\ frombuffer_raises(pcm_bytes)
AcceptFails ==
    /\ ~OddFed
    /\ kaldi.available
    /\ kaldi.ctor = "ok"
    /\ kaldi.accept > 0
    /\ kaldi.accept <= CeilDiv(SampleCount, 4000)

C15_OnlyTranscriberError ==
    FeedDone =>
      /\ feed_out.exc \in {"", "TranscriberError"}
      /\ (feed_out.model # 0 /\ ~EmptyInput)
           => /\ OddFed => feed_out.exc = "TranscriberError" /\ feed_out.calls = <<>>
              /\ (~OddFed /\ ~kaldi.available)
                   => feed_out.exc = "TranscriberError" /\ feed_out.calls = <<>>
              /\ (~OddFed /\ kaldi.available /\ kaldi.ctor = "raise")
                   => /\ feed_out.exc = "TranscriberError"
                      /\ Len(feed_out.calls) = 1
              /\ AcceptFails
                   => /\ feed_out.exc = "TranscriberError"
                      /\ Last(feed_out.calls).op = "AcceptWaveform"
                      /\ CountOp(feed_out.calls, "AcceptWaveform") = kaldi.accept
                      /\ CountOp(feed_out.calls, "FinalResult") = 0
                      /\ CountOp(feed_out.calls, "Result") = 0

C15_Witness ==
    /\ fpc = "transcribed"
    /\ feed_out.model # 0
    /\ kaldi.accept = 1
    /\ Len(transcribing.data) > 4000
    /\ feed_out.exc = "TranscriberError"
    /\ Len(feed_out.calls) = 2

(***************************************************************************)
(* Error paths of RecordingWorker.run                                      *)
(***************************************************************************)
StopReturnedEmpty == ret.op = "stop" /\ ret.exc = "" /\ Len(ret.value.data) = 0

\* C16: once recorder.stop() has returned an empty array, run() never announces
\* transcription_started or transcription_complete and never reaches the call of
\* transcribe; it ends having emitted recording_started, recording_stopped and one
\* transcription_error, which says "No audio recorded" (when no reset() call has
\* replaced the stored audio in the meantime).
C16_EmptyAudioPath ==
    StopReturnedEmpty =>
      /\ pc \in {"stored", "check_len", "done"}
      /\ transcribing = NoneArray
      /\ Count(emitted, {"transcription_started", "transcription_complete"}) = 0
      /\ Position(emitted, "recording_stopped") = 2
      /\ pc = "done"
           => /\ Names(emitted) = <<"recording_started", "recording_stopped",
                                    "transcription_error">>
              /\ resets = 0 => Last(emitted)[2] = "No audio recorded"

C16_Witness ==
    /\ StopReturnedEmpty
    /\ pc = "done"
    /\ callbacks > 0
    /\ resets = 0
    /\ Last(emitted) = <<"transcription_error", "No audio recorded">>

\* C17: when the selected device is not listed and the capability probe fails,
\* start() raises AudioRecorderError and creates no stream; a run whose start()
\* rejected the device has ended with recording_started and one
\* transcription_error only, no stream exists, no callback has run and the
\* buffer is empty.
Listed(device, env) ==
    /\ ~list_devices_raises(env)
    /\ \E i \in 1..Len(list_devices(env)) : list_devices(env)[i] = device

DeviceRejected ==
    ret.op = "start" /\ ret.msg = "Device does not support sample rate"

C17_InvalidDevicePath ==
    /\ (pc = "start" /\ recorder._device_id # None)
         => \A env \in StartEnvs(sd) :
               (env.probe # "ok" /\ ~Listed(recorder._device_id, env))
                 => LET out == start(recorder, streams, env)
                    IN  /\ out.exc = "AudioRecorderError"
                        /\ out.ss = streams
                        /\ out.r._stream = NoStream
    /\ DeviceRejected
         => /\ pc = "done"
            /\ Names(emitted) = <<"recording_started", "transcription_error">>
            /\ Last(emitted)[2] = "Recording error"
            /\ streams = <<>>
            /\ recorder._stream = NoStream
            /\ callbacks = 0
            /\ delivered = <<>>
            /\ recorder._audio_data = <<>>

C17_Witness ==
    /\ DeviceRejected
    /\ recorder._device_id = 9999
    /\ pc = "done"
    /\ stopCalls > 0

\* C18: recording_started is emitted only once start() has returned normally: it
\* has not been emitted while start() is still to be called, nor in a run whose
\* start() raised.
C18_StartedOnlyAfterStart ==
    /\ pc = "start" => Count(emitted, {"recording_started"}) = 0
    /\ (ret.op = "start" /\ ret.exc # "") => Count(emitted, {"recording_started"}) = 0

(***************************************************************************)
(* More properties of AudioRecorder                                        *)
(***************************************************************************)
\* C19: no exception ever leaves _audio_callback.
C19_CallbackNeverRaises == cbpc # "raised"

\* C20: a stop() call on a recorder that is not recording returns the empty int16
\* array without raising and touches neither the recorder nor any stream; and a
\* stream that has been stopped or closed is never stopped or closed again.
StopCalled == rpc' = "stopping" \/ (ret' # ret /\ ret'.op \in {"stop", "stop_idle"})

C20_StopIdempotent ==
    [][/\ (rpc = "idle" /\ ~is_recording(recorder) /\ StopCalled)
            => /\ ret'.exc = ""
               /\ ret'.value = EmptyInt16
               /\ rpc' = "idle"
               /\ UNCHANGED <<recorder, streams>>
       /\ \A i \in 1..Len(streams) :
             streams[i] \in {"stopped", "closed", "stop_failed"}
               => streams'[i] = streams[i]]_vars

C20_Witness ==
    /\ ret.op = "stop_idle"
    /\ Len(streams) = 1
    /\ streams[1] = "closed"
    /\ recorder._audio_data # <<>>

\* C21: start() records from the id given to set_device, else from the default
\* device, else from the first listed device; when there is none of the three it
\* raises AudioRecorderError("No audio input device found") and creates no stream.
Preferred(env) ==
    IF recorder._device_id # None THEN recorder._device_id
    ELSE IF env.default # None THEN env.default
    ELSE IF env.query > 0 THEN 0
    ELSE None

C21_DeviceResolutionOrder ==
    /\ (rpc = "idle" /\ BeginsSession)
         => \A env \in StartEnvs(sd) :
               LET out == start(recorder, streams, env)
               IN  IF Preferred(env) = None
                   THEN /\ out.exc = "AudioRecorderError"
                        /\ out.msg = "No audio input device found"
                        /\ out.ss = streams
                        /\ out.r._stream = NoStream
                   ELSE /\ out.device = Preferred(env)
                        /\ out.msg # "No audio input device found"
    /\ (ret.op = "start" /\ ret.msg = "No audio input device found")
         => /\ ret.exc = "AudioRecorderError"
            /\ ret.device = None
            /\ recorder._stream = NoStream
            /\ ~StreamActive

C21_Witness ==
    /\ ret.op = "start"
    /\ ret.exc = ""
    /\ recorder._device_id = None
    /\ ret.device = 0
    /\ StreamActive

\* C22: list_devices() raises nothing, whatever the device query does.
C22_ListDevicesNeverFails == ret.op = "list_devices" => ret.exc = ""

\* C23: a block of floating-point samples is stored by the callback as the 16-bit
\* integers nearest to clamp(x, -1, 1) * 32767 (1.5 gives 32767, -0.25 gives -8192).
RoundDiv(a, b) == (2 * a + b) \div (2 * b)
Nearest(arr) ==
    IF arr.dtype = "float"
    THEN [i \in 1..Len(arr.data) |-> RoundDiv(Clip(arr.data[i]) * 32767, 1000)]
    ELSE arr.data

C23_RoundToNearest ==
    cbpc = "append" => \E arr \in Indata : arr # NoneArray /\ cb_arr = Nearest(arr)

(***************************************************************************)
(* Properties of the named-pipe listener                                   *)
(***************************************************************************)
\* C24: a payload that begins with "RIFF" gives its frames only when the container
\* declares one channel and two bytes per sample, and is rejected with an error
\* otherwise; any other payload is passed on unchanged; an empty one gives empty
\* bytes.
Extracted == fifo_pc = "forward"
Declares(buf, channels, sampwidth) ==
    Len(buf) >= 6 /\ buf[5] = channels /\ buf[6] = sampwidth

C24_ExtractPcm ==
    /\ fifo_pc = "extract"
         => LET out == _extract_pcm_from_buf(fifo_buf)
            IN  IF Slice(fifo_buf, 4) = RIFF
                THEN IF Declares(fifo_buf, 1, 2)
                     THEN out = [exc |-> "", pcm |-> SubSeq(fifo_buf, 7, Len(fifo_buf))]
                     ELSE out.exc # ""
                ELSE out = [exc |-> "", pcm |-> fifo_buf]
    /\ Extracted
         => IF Slice(fifo_buf, 4) = RIFF
            THEN Declares(fifo_buf, 1, 2) /\ fifo_pcm = SubSeq(fifo_buf, 7, Len(fifo_buf))
            ELSE fifo_pcm = fifo_buf
    /\ _extract_pcm_from_buf(<<>>) = [exc |-> "", pcm |-> <<>>]

C24_Witness ==
    /\ fifo_pc = "forward"
    /\ fifo_buf = Wav(1, 2, <<3, 4>>)
    /\ fifo_pcm = <<3, 4>>
    /\ writers = 2
    /\ Len(forwarded) = 0

\* C27: the controlling thread never touches the buffer or the overflow counter
\* (the reset in start(), the concatenation in stop(), get_overflow_count()) while
\* an invocation of the audio callback is between its first and its last access
\* to them.
InCallback == cbpc # "idle"
ControllerAccess ==
    \/ ret' # ret /\ ret'.op \in {"get_overflow_count", "stop"}
    \/ ret'.op = "start" /\ recorder'._recording /\ ~recorder._recording

StopReturnedAudio == ret.op = "stop" /\ ret.exc = "" /\ Len(ret.value.data) > 0

BeforeLoop == pc \in {"idle", "start"}
StartRaised == ret.op = "start" /\ ret.exc # ""

C29_StopNeverLost ==
    /\ [][/\ _should_stop' # _should_stop
               => (stopCalls' # stopCalls \/ resets' # resets)
          /\ (pc = "poll" /\ pc' # pc /\ _should_stop)
               => (pc' = "stop" /\ should_stop')]_vars
    /\ (BeforeLoop /\ _should_stop)
         ~> \/ /\ pc = "done"
               /\ Terminals(emitted) = 1
               /\ StartRaised \/ ~is_recording(recorder)
            \/ pc # "done" /\ ~_should_stop

C29_Witness ==
    /\ pc = "start"
    /\ _should_stop
    /\ stopCalls > 0
    /\ resets = 0

(***************************************************************************)
(* Properties of Translator.translate                                      *)
(***************************************************************************)
Blank(text) == isinstance_str(text) /\ strip(text.chars) = <<>>
Translated == tr_out # NoTranslation
EngineOrder ==
    /\ tr_out.calls \in {<<"google">>, <<"google", "bing">>}
    /\ Len(tr_out.calls) = 2 <=> tr_out.env["google"] = "raise"
    /\ tr_out.exc = "" <=> tr_out.env[Last(tr_out.calls)] # "raise"
    /\ tr_out.exc = ""
         => /\ tr_out.value.engine = Last(tr_out.calls)
            /\ tr_out.value.query_text = tr_out.text.chars
            /\ get_last_engine(translator) = Last(tr_out.calls)
    /\ tr_out.exc # ""
         => /\ tr_out.exc = "TranslatorError"
            /\ \A e \in {"google", "bing"} : tr_out.env[e] = "raise"
            /\ get_last_engine(translator) = tr_out.before

\* C26 as stated, for a text that is a str: a blank text gives "" with no engine
\* called; every other call tries google then bing, bing only after google
\* raised, returns the first successful result, leaves get_last_engine() at the
\* engine of the most recent success, and raises TranslatorError only when every
\* engine has failed.
C26_EngineFallback ==
    (Translated /\ isinstance_str(tr_out.text)) =>
        IF Blank(tr_out.text)
        THEN tr_out.calls = <<>> /\ tr_out.exc = "" /\ tr_out.value = EmptyStr
        ELSE EngineOrder

\* C26, amended: the same for a str text and a supported target language; a
\* text that is not a str, or a non-blank text with an unsupported target
\* language, raises TranslatorError with no engine called and get_last_engine()
\* unchanged.
C26_EngineFallback_Amended ==
    Translated =>
        IF Blank(tr_out.text)
        THEN tr_out.calls = <<>> /\ tr_out.exc = "" /\ tr_out.value = EmptyStr
        ELSE IF /\ isinstance_str(tr_out.text)
                /\ target_code(tr_out.target_language) # ""
        THEN EngineOrder
        ELSE /\ tr_out.calls = <<>>
             /\ tr_out.exc = "TranslatorError"
             /\ get_last_engine(translator) = tr_out.before

C26_Witness ==
    /\ tr_out.calls = <<"google", "bing">>
    /\ tr_out.exc = "TranslatorError"
    /\ tr_out.before = "bing"
    /\ get_last_engine(translator) = "bing"

(***************************************************************************)
(* Properties of the recording sessions started from the widget            *)
(***************************************************************************)
\* C25: a toggled(True) whose load_model() raises TranscriberError creates and
\* starts no worker: the widget's workers are the same as before, self.worker is
\* the same, no worker emits recording_started or opens a stream in that step, and
\* the button is left unchecked.
ModelErrorStep == ui'.toggle # ui.toggle /\ ui'.last = "model_error"

C25_NoWorkerOnModelError ==
    [][ModelErrorStep =>
         /\ Len(ui_workers') = Len(ui_workers)
         /\ ui'.worker = ui.worker
         /\ ~ui'.checked
         /\ \A i \in 1..Len(ui_workers) :
              /\ ui_workers'[i].phase = ui_workers[i].phase
              /\ ui_workers'[i].stream = ui_workers[i].stream]_vars

C25_Witness ==
    /\ ui.last = "model_error"
    /\ ui.toggle = 0
    /\ Len(ui_workers) = 1
    /\ ui_workers[1].stream = "closed"

\* C30: sessions started from the widget never overlap: at most one worker is
\* between recording_started and its terminal notification, and at most one
\* input stream is open.
InSession(w) == w.phase \in {"begun", "polling", "stopped"}

C30_SessionsNeverOverlap ==
    /\ Cardinality({i \in 1..Len(ui_workers) : InSession(ui_workers[i])}) <= 1
    /\ Cardinality({i \in 1..Len(ui_workers) : ui_workers[i].stream = "open"}) <= 1

(***************************************************************************)
(* Properties of the named-pipe entry point and of the recognizers it uses  *)
(***************************************************************************)
\* The forwarded payloads whose transcribe() got a recognizer constructed.
Decoded ==
    {i \in 1..Len(forwarded) :
        /\ forwarded[i] # <<>>
        /\ ~frombuffer_raises(forwarded[i])
        /\ is_model_loaded(_model)
        /\ kaldi.available
        /\ kaldi.ctor = "ok"}

\* C31: every transcribe() call on non-empty audio that reaches the recognizer
\* constructs exactly one KaldiRecognizer, all AcceptWaveform, FinalResult and
\* Result calls of that transcribe() go to it, and no recognizer receives calls
\* from two different transcribe() calls.
C31_FreshRecognizerPerCall ==
    /\ Len(recognizers) = Cardinality(Decoded)
    /\ \A r \in 1..Len(recognizers) :
         /\ recognizers[r][1].op = "KaldiRecognizer"
         /\ \A k \in 2..Len(recognizers[r]) :
              /\ recognizers[r][k].op \in {"AcceptWaveform", "FinalResult", "Result"}
              /\ recognizers[r][k].call = recognizers[r][1].call
         /\ recognizers[r][1].call \in Decoded
         /\ \A q \in 1..Len(recognizers) :
              q # r => recognizers[q][1].call # recognizers[r][1].call

C31_Witness ==
    /\ Len(recognizers) = 2
    /\ \A r \in 1..2 : Len(recognizers[r]) = 3

(***************************************************************************)
(* Further properties of AudioRecorder                                     *)
(***************************************************************************)
\* C32: once stop() has returned, the recorder's frame list is empty, and it stays
\* empty until the next start().
C32_BufferClearedOnStop ==
    (~is_recording(recorder) /\ rpc = "idle" /\ ret.op = "stop" /\ ret.exc = "")
      => recorder._audio_data = <<>>

\* C33: a process_pcm call emits, for non-empty bytes, transcription_started and
\* then exactly one of transcription_complete and transcription_error; for empty
\* bytes only transcription_error "No audio provided", with no call of the
\* transcriber; it returns normally to the loop, emits neither recording_started
\* nor recording_stopped, and leaves the recorder, the stop flag and _audio_data
\* as they were.
ProcessPcmStep == Len(forwarded') = Len(forwarded) + 1
NewlyEmitted == SubSeq(emitted', Len(emitted) + 1, Len(emitted'))

C33_ProcessPcm ==
    [][ProcessPcmStep =>
         /\ IF Last(forwarded') = <<>>
            THEN /\ NewlyEmitted = <<<<"transcription_error", "No audio provided">>>>
                 /\ feed_out' = feed_out
                 /\ recognizers' = recognizers
            ELSE /\ Len(NewlyEmitted) = 2
                 /\ NewlyEmitted[1][1] = "transcription_started"
                 /\ NewlyEmitted[2][1] \in {"transcription_complete",
                                            "transcription_error"}
                 /\ NewlyEmitted[2][1] = "transcription_complete" <=> feed_out'.exc = ""
         /\ SubSeq(emitted', 1, Len(emitted)) = emitted
         /\ Count(emitted', {"recording_started", "recording_stopped"}) = 0
         /\ fifo_pc' = "open"
         /\ UNCHANGED <<recorder, streams, _should_stop, worker_audio_data>>]_vars

C33_Witness ==
    /\ Len(forwarded) = 2
    /\ forwarded[1] = <<>>
    /\ forwarded[2] # <<>>
    /\ Names(emitted) = <<"transcription_error", "transcription_started",
                          "transcription_error">>

\* C34: in the named-pipe entry point the model has been loaded before the first
\* payload is forwarded: the feed_pcm call made for a forwarded non-empty payload
\* finds a loaded model.
C34_ModelLoadedBeforeForward ==
    (forwarded # <<>> /\ Last(forwarded) # <<>>)
      => /\ is_model_loaded(feed_out.model)
         /\ is_model_loaded(_model)

\* C35: listen_and_forward forwards at most once per writer session, and then
\* exactly the PCM extracted from the payload that writer left; an empty payload
\* or a payload that _extract_pcm_from_buf rejects is not forwarded; a parse
\* failure sends the loop back to waiting for a writer, and the loop is left only
\* by the return that follows KeyboardInterrupt, never by an exception.
Rejects(buf) == _extract_pcm_from_buf(buf).exc # ""

Translating == {i \in 1..Len(tr_workers) : tr_workers[i].phase = "translating"}

C36_OneTranslationAtATime ==
    /\ Cardinality(Translating) <= 1
    /\ \A j \in 1..Len(tr_workers) :
         (ui.translation_text # 0 /\ tr_workers[j].outcome = "complete")
           => j <= ui.translation_text

\* C37: a start() call made while is_recording() is true returns without
\* raising and changes nothing: no stream is constructed, the held stream, the
\* buffered blocks, the overflow count and the selected device stay as they are.
StartCall == ret'.op = "start" /\ ret' # ret

C37_StartWhileRecordingNoOp ==
    [][(StartCall /\ is_recording(recorder))
         => /\ ret'.exc = ""
            /\ recorder' = recorder
            /\ streams' = streams
            /\ delivered' = delivered
            /\ overflows' = overflows]_vars

C37_Witness ==
    /\ ret.op = "start" /\ ret.exc = "" /\ ret.device = None
    /\ is_recording(recorder)
    /\ recorder._stream # NoStream
    /\ Len(recorder._audio_data) > 0
    /\ get_overflow_count(recorder) > 0

\* C38: _validate_device accepts a device exactly when the probe succeeds, or
\* when the probe fails with something other than a PortAudio error and the id is
\* listed; a PortAudio error rejects a listed device too; and start() raises
\* AudioRecorderError, creating no stream, for a device that is rejected.
Accepts(device, env) ==
    /\ env.sd
    /\ \/ env.probe = "ok"
       \/ env.probe = "other" /\ Listed(device, env)

C38_ValidateDevice ==
    /\ (rpc = "idle" /\ BeginsSession)
         => \A env \in StartEnvs(sd) :
               LET device == resolve_device(recorder, env)
                   out == start(recorder, streams, env)
               IN  /\ _validate_device(device, env) <=> Accepts(device, env)
                   /\ (env.probe = "PortAudioError" /\ Listed(device, env))
                        => ~_validate_device(device, env)
                   /\ (device # None /\ ~Accepts(device, env))
                        => /\ out.exc = "AudioRecorderError"
                           /\ out.msg = "Device does not support sample rate"
                           /\ out.ss = streams
                           /\ out.r._stream = NoStream
                   /\ out.msg = "Device does not support sample rate"
                        => ~Accepts(device, env)
    /\ DeviceRejected
         => /\ ret.exc = "AudioRecorderError"
            /\ recorder._stream = NoStream

C38_Witness ==
    /\ DeviceRejected
    /\ recorder._device_id = None
    /\ ret.device = 0
    /\ Len(streams) = 1

\* C39: when load_model() fails in _on_record_toggled(True), then after that
\* handler and the toggled(False) handler it triggers have run, the button is
\* unchecked, the status label shows the model error, and no worker of an earlier
\* session has had stop_recording() called on it.
C39_ModelErrorShown ==
    [][ModelErrorStep =>
         /\ ~ui'.checked
         /\ ui'.status_label = "Model error"
         /\ ui_workers' = ui_workers]_vars

(***************************************************************************)
(* Properties of HotkeyManager                                             *)
(***************************************************************************)
Occurrences(seq, x) == Cardinality({i \in 1..Len(seq) : seq[i] = x})
LastCall == IF keyboard.calls = <<>> THEN "" ELSE keyboard.calls[Len(keyboard.calls)]

\* C40: after unregister_all(), every handler that add_hotkey returned to the
\* manager has been passed to remove_hotkey exactly once, every fallback shortcut
\* has had setEnabled(False) called on it, and _keyboard, _keyboard_hotkey and
\* _shortcut are None.
C40_UnregisterAll ==
    LastCall = "unregister_all"
      => /\ \A i \in 1..Len(keyboard.added) :
              Occurrences(keyboard.removed, keyboard.added[i]) = 1
         /\ \A k \in 1..Len(keyboard.shortcuts) :
              Occurrences(keyboard.disabled, k) >= 1
         /\ ~hotkey_manager._keyboard
         /\ hotkey_manager._keyboard_hotkey = 0
         /\ hotkey_manager._shortcut = 0

====
